---- MODULE Spec2Model ----
(***************************************************************************)
(* Model of the mailmunch email-ingest Lambda (lambda/email_ingest/main.go)*)
(* and of the object store it works against.                               *)
(*                                                                         *)
(* Strings are sequences of tokens.  A token is one character, except that *)
(* a maximal run of letters is written as one token ("loseit", "csv").     *)
(* Every operation below keeps that form, so two strings are equal exactly *)
(* when their token sequences are equal.                                   *)
(***************************************************************************)
EXTENDS Integers, Sequences, FiniteSets, TLC

(***************************************************************************)
(* Bounds of the model.                                                    *)
(***************************************************************************)
\* number of handler invocations the platform starts
NumInv == 2
\* number of days the wall clock may advance during a behaviour
MaxTicks == 1
\* number of calls (to the object store, or to build its client) that may
\* fail for a reason of the service during a behaviour
MaxFaults == 1

Inv == 1..NumInv

(***************************************************************************)
(* String helpers (package strings, regexp, fmt).                          *)
(***************************************************************************)
\* characters outside the class [A-Za-z0-9._-] that occur in the model
Unsafe == {" ", "@", "<", ">", "/", "=", "%", "+", "!", "#", ",", ":"}

IsSafe(t) == t \notin Unsafe

\* regexp.MustCompile(`[^A-Za-z0-9._-]+`).ReplaceAllString(s, rep)
ReplaceUnsafeRuns(s, rep) ==
    LET f[i \in 0..Len(s)] ==
          IF i = 0 THEN <<>>
          ELSE IF IsSafe(s[i]) THEN f[i-1] \o <<s[i]>>
          ELSE IF i > 1 /\ ~IsSafe(s[i-1]) THEN f[i-1]
          ELSE f[i-1] \o rep
    IN f[Len(s)]

\* strings.Trim(s, cutset)
Trim(s, cutset) ==
    LET keep == {i \in 1..Len(s) : s[i] \notin cutset}
    IN IF keep = {} THEN <<>>
       ELSE SubSeq(s, CHOOSE i \in keep : \A j \in keep : i <= j,
                      CHOOSE i \in keep : \A j \in keep : i >= j)

\* strings.TrimSpace(s)
TrimSpace(s) == Trim(s, {" ", "\t", "\r", "\n"})

\* strings.LastIndex(s, t) for a one-character t, 1-based; 0 when absent
\* (Go's -1)
LastIndex(s, t) ==
    LET hits == {i \in 1..Len(s) : s[i] = t}
    IN IF hits = {} THEN 0 ELSE CHOOSE i \in hits : \A j \in hits : i >= j

\* strings.Split(s, sep) for a one-character sep
RECURSIVE Split(_, _)
Split(s, sep) ==
    LET hits == {i \in 1..Len(s) : s[i] = sep}
    IN IF hits = {} THEN <<s>>
       ELSE LET i == CHOOSE h \in hits : \A j \in hits : h <= j
            IN <<SubSeq(s, 1, i-1)>> \o Split(SubSeq(s, i+1, Len(s)), sep)

\* strings.HasPrefix(s, p)
HasPrefix(s, p) == Len(s) >= Len(p) /\ SubSeq(s, 1, Len(p)) = p

\* strings.HasSuffix(s, p)
HasSuffix(s, p) ==
    Len(s) >= Len(p) /\ SubSeq(s, Len(s) - Len(p) + 1, Len(s)) = p

\* strings.ToLower on one token, over the letters the model uses
LowerTok(t) ==
    CASE t = "LoseIt" -> "loseit"
      [] t = "LOSEIT" -> "loseit"
      [] t = "COM"    -> "com"
      [] t = "Com"    -> "com"
      [] t = "CSV"    -> "csv"
      [] t = "Csv"    -> "csv"
      [] t = "Report" -> "report"
      [] t = "Date"   -> "date"
      [] t = "Name"   -> "name"
      [] t = "Type"   -> "type"
      [] t = "Quantity" -> "quantity"
      [] t = "Units"  -> "units"
      [] t = "Calories" -> "calories"
      [] t = "Fat"    -> "fat"
      [] t = "Exercise" -> "exercise"
      [] t = "Running" -> "running"
      [] t = "Chicken" -> "chicken"
      [] t = "Breast" -> "breast"
      [] t = "Morning" -> "morning"
      [] t = "EXERCISE" -> "exercise"
      [] t = "Breakfast" -> "breakfast"
      [] t = "Snack"  -> "snack"
      [] t = "Protein" -> "protein"
      [] t = "G"      -> "g"
      [] OTHER        -> t

\* strings.ToLower(s)
ToLower(s) == [i \in 1..Len(s) |-> LowerTok(s[i])]

\* strings.EqualFold(a, b)
EqualFold(a, b) == ToLower(a) = ToLower(b)

DigitTok == <<"0", "1", "2", "3", "4", "5", "6", "7", "8", "9">>

\* fmt's %d for a natural number
RECURSIVE Itoa(_)
Itoa(n) == IF n < 10 THEN <<DigitTok[n+1]>>
           ELSE Itoa(n \div 10) \o <<DigitTok[(n % 10) + 1]>>

\* time.Format's zero-padded fields ("2006", "01", "02")
RECURSIVE Pad(_, _)
Pad(n, w) == IF Len(Itoa(n)) >= w THEN Itoa(n)
             ELSE <<"0">> \o Pad(n, w - 1)

(***************************************************************************)
(* Time (package time, net/mail.ParseDate).  A date is [y, mo, d]; a       *)
(* parsed Date header is a local date, an hour and a zone offset in hours. *)
(***************************************************************************)
DaysIn(y, mo) ==
    IF mo \in {4, 6, 9, 11} THEN 30
    ELSE IF mo = 2 THEN (IF y % 4 = 0 /\ (y % 100 # 0 \/ y % 400 = 0) THEN 29 ELSE 28)
    ELSE 31

NextDay(t) ==
    IF t.d < DaysIn(t.y, t.mo) THEN [t EXCEPT !.d = t.d + 1]
    ELSE IF t.mo < 12 THEN [y |-> t.y, mo |-> t.mo + 1, d |-> 1]
    ELSE [y |-> t.y + 1, mo |-> 1, d |-> 1]

PrevDay(t) ==
    IF t.d > 1 THEN [t EXCEPT !.d = t.d - 1]
    ELSE IF t.mo > 1 THEN [y |-> t.y, mo |-> t.mo - 1, d |-> DaysIn(t.y, t.mo - 1)]
    ELSE [y |-> t.y - 1, mo |-> 12, d |-> 31]

\* time.Time.UTC() followed by the calendar date: hour h at offset off
\* (hours east of UTC) is hour h - off of UTC
UTCDate(date, h, off) ==
    IF h - off < 0 THEN PrevDay(date)
    ELSE IF h - off >= 24 THEN NextDay(date)
    ELSE date

\* t.Format("2006-01-02")
FormatDate(t) == Pad(t.y, 4) \o <<"-">> \o Pad(t.mo, 2) \o <<"-">> \o Pad(t.d, 2)

(***************************************************************************)
(* Pure functions of lambda/email_ingest/main.go.                          *)
(***************************************************************************)
\* os.Getenv: an unset variable reads as the empty string
Getenv(e, k) == e[k]

envOr(e, k, def) == IF Getenv(e, k) # <<>> THEN Getenv(e, k) ELSE def

DefaultIncomingPrefix == <<"raw", "/", "email", "/", "incoming", "/">>
DefaultRawEmailBase   == <<"raw", "/", "email", "/">>
DefaultRawCsvBase     == <<"raw", "/", "loseit", "_", "csv", "/">>
DefaultAllowedDomain  == <<"loseit", ".", "com">>

\* value of one hexadecimal digit, -1 when the character is none
HexVal(c) ==
    CASE c \in {"0","1","2","3","4","5","6","7","8","9"} ->
            CHOOSE v \in 0..9 : DigitTok[v+1] = c
      [] c \in {"a", "A"} -> 10
      [] c \in {"b", "B"} -> 11
      [] c \in {"c", "C"} -> 12
      [] c \in {"d", "D"} -> 13
      [] c \in {"e", "E"} -> 14
      [] c \in {"f", "F"} -> 15
      [] OTHER -> -1

\* the character of a byte value, over the bytes the model uses
ByteTok(v) ==
    CASE v = 32 -> " "
      [] v = 37 -> "%"
      [] v = 43 -> "+"
      [] v = 47 -> "/"
      [] v = 61 -> "="
      [] OTHER  -> "?"

\* urlUnescape: [ok, val]; ok = FALSE is the "invalid escape" error
urlUnescape(s) ==
    LET f[i \in 1..(Len(s) + 1)] ==
          IF i > Len(s) THEN [ok |-> TRUE, val |-> <<>>]
          ELSE IF s[i] = "%" /\ i + 2 <= Len(s)
               THEN IF HexVal(s[i+1]) < 0 \/ HexVal(s[i+2]) < 0
                    THEN [ok |-> FALSE, val |-> <<>>]
                    ELSE LET rest == f[i+3]
                         IN [ok  |-> rest.ok,
                             val |-> <<ByteTok(((HexVal(s[i+1]) * 16) % 256) + HexVal(s[i+2]))>>
                                     \o rest.val]
               ELSE LET rest == f[i+1]
                    IN [ok |-> rest.ok, val |-> <<s[i]>> \o rest.val]
    IN f[1]

\* strings.ReplaceAll(s, "+", "%20")
PlusToPercent20(s) ==
    LET f[i \in 0..Len(s)] ==
          IF i = 0 THEN <<>>
          ELSE IF s[i] = "+" THEN f[i-1] \o <<"%", "2", "0">>
          ELSE f[i-1] \o <<s[i]>>
    IN f[Len(s)]

\* urlDecode never fails: on an invalid escape it returns its input
urlDecode(s) ==
    LET u == urlUnescape(PlusToPercent20(s))
    IN IF u.ok THEN u.val ELSE s

\* filepath.Base
Base(path) ==
    IF path = <<>> THEN <<".">>
    ELSE LET stripped == LET keep == {i \in 1..Len(path) : path[i] # "/"}
                         IN IF keep = {} THEN <<>>
                            ELSE SubSeq(path, 1, CHOOSE i \in keep : \A j \in keep : i >= j)
             last == SubSeq(stripped, LastIndex(stripped, "/") + 1, Len(stripped))
         IN IF last = <<>> THEN <<"/">> ELSE last

\* filepath.Ext: from the last dot of the last path element
Ext(path) ==
    LET dot == LastIndex(path, ".")
    IN IF dot > LastIndex(path, "/") THEN SubSeq(path, dot, Len(path)) ELSE <<>>

\* sanitizeMessageID reading a header the message does not carry
sanitizeMessageID_NoHeader(msg) == <<>>

\* sanitizeMessageID that leaves the angle brackets to the replacement
sanitizeMessageID_KeepBrackets(msg) ==
    IF ~msg.parsed THEN <<>>
    ELSE LET mid == TrimSpace(msg.mid)
         IN IF mid = <<>> THEN <<>> ELSE ReplaceUnsafeRuns(mid, <<"-">>)

\* sanitizeMessageID; a message that mail.ReadMessage could not parse is nil
sanitizeMessageID(msg) ==
    IF ~msg.parsed THEN <<>>
    ELSE LET mid == TrimSpace(Trim(msg.mid, {"<", ">"}))
         IN IF mid = <<>> THEN <<>> ELSE ReplaceUnsafeRuns(mid, <<"-">>)

sanitizeFilename(name) ==
    IF name = <<>> THEN <<"attachment", ".", "csv">>
    ELSE ReplaceUnsafeRuns(Base(name), <<"_">>)

\* dateFromMessage that never looks at the Date header
dateFromMessage_ClockOnly(msg, clock) == FormatDate(clock)

\* dateFromMessage that formats the date as the header's zone has it
dateFromMessage_LocalDate(msg, clock) ==
    FormatDate(IF msg.parsed /\ msg.date.kind = "ok" THEN msg.date.day ELSE clock)

\* dateFromMessage: the Date header when mail.ParseDate accepts it, else
\* the wall clock (clock is time.Now().UTC()'s date)
dateFromMessage(msg, clock) ==
    FormatDate(IF msg.parsed /\ msg.date.kind = "ok"
               THEN UTCDate(msg.date.day, msg.date.h, msg.date.off)
               ELSE clock)

\* dateParts
dateParts(dt, clock) ==
    LET parts == Split(dt, "-")
    IN IF Len(parts) # 3
       THEN <<Pad(clock.y, 4), Pad(clock.mo, 2), Pad(clock.d, 2)>>
       ELSE parts

\* fmt.Sprintf("%syear=%s/month=%s/day=%s/%s", base, year, month, day, leaf)
PartitionedKey(base, ymd, leaf) ==
    base \o <<"year", "=">> \o ymd[1] \o <<"/", "month", "=">> \o ymd[2]
         \o <<"/", "day", "=">> \o ymd[3] \o <<"/">> \o leaf

\* the domain check with the sender's domain compared as written
DomainFilter_CaseSensitive(msg, allowedDomain) ==
    IF allowedDomain = <<>> THEN "accept"
    ELSE IF ~msg.parsed THEN "nil-deref"
    ELSE IF ~msg.from.present THEN "no-from"
    ELSE IF ~msg.from.ok THEN "invalid-from"
    ELSE LET parts == Split(msg.from.addr, "@")
         IN IF Len(parts) # 2 THEN "malformed-address"
            ELSE IF parts[2] # allowedDomain THEN "wrong-domain"
            ELSE "accept"

\* the domain check of handler: "accept", a reject reason, or "nil-deref"
\* when msg is nil and msg.Header is read
DomainFilter(msg, allowedDomain) ==
    IF allowedDomain = <<>> THEN "accept"
    ELSE IF ~msg.parsed THEN "nil-deref"
    ELSE IF ~msg.from.present THEN "no-from"
    ELSE IF ~msg.from.ok THEN "invalid-from"
    ELSE LET parts == Split(msg.from.addr, "@")
         IN IF Len(parts) # 2 THEN "malformed-address"
            ELSE IF ToLower(parts[2]) # ToLower(allowedDomain) THEN "wrong-domain"
            ELSE "accept"

RejectReasons == {"no-from", "invalid-from", "malformed-address", "wrong-domain"}

\* the attachment test by the extension alone
IsCsvAttachment_ExtOnly(a) == EqualFold(Ext(a.name), <<".", "csv">>)

\* the attachment test of handler: extension .csv or media type text/csv
IsCsvAttachment(a) ==
    EqualFold(Ext(a.name), <<".", "csv">>) \/ EqualFold(a.ctype, <<"text", "/", "csv">>)

\* the leaf name handler gives an attachment
CsvLeaf(a) ==
    IF TrimSpace(a.name) # <<>> THEN sanitizeFilename(TrimSpace(a.name))
    ELSE <<"loseit", "-", "daily", ".", "csv">>

\* index of the first attachment from position j on for which handler
\* reaches ensureUniqueKey; 0 when there is none
NextCsv(atts, j) ==
    LET sel == {n \in j..Len(atts) : IsCsvAttachment(atts[n]) /\ atts[n].content # "nil"}
    IN IF sel = {} THEN 0 ELSE CHOOSE n \in sel : \A m \in sel : n <= m

\* ensureUniqueKey: the split of key at its last dot
KeyBase(key) == IF LastIndex(key, ".") > 0 THEN SubSeq(key, 1, LastIndex(key, ".") - 1) ELSE key

KeyExt(key) == IF LastIndex(key, ".") > 0 THEN SubSeq(key, LastIndex(key, "."), Len(key)) ELSE <<>>

\* ensureUniqueKey gives up probing when try exceeds this
MaxTry == 50

\* fmt.Sprintf("%s-%d%s", base, try, ext)
SuffixedKey(key, try) == KeyBase(key) \o <<"-">> \o Itoa(try) \o KeyExt(key)

\* uuid.New().String(): the n-th identifier drawn
Uuid(n) == <<"uuid">> \o Itoa(n)

\* fmt.Sprintf("%s-%s%s", base, uuid.New().String(), ext)
RandomKey(key, n) == KeyBase(key) \o <<"-">> \o Uuid(n) \o KeyExt(key)

(***************************************************************************)
(* The object store (the s3API interface).  storage maps <<bucket, key>>   *)
(* to the bytes held there.  Bytes are described by what the parsers make  *)
(* of them: mail.ReadMessage (parsed, from, mid, date) and                 *)
(* enmime.ReadEnvelope (mimeOk, atts).                                     *)
(***************************************************************************)
Exists(st, b, k) == <<b, k>> \in DOMAIN st

\* PutObject, when it succeeds
Put(st, b, k, body) ==
    [x \in DOMAIN st \cup {<<b, k>>} |-> IF x = <<b, k>> THEN body ELSE st[x]]

\* DeleteObject, when it succeeds
Delete(st, b, k) == [x \in DOMAIN st \ {<<b, k>>} |-> st[x]]

NoDate == [kind |-> "absent", day |-> [y |-> 0, mo |-> 0, d |-> 0], h |-> 0, off |-> 0]

\* bytes that are no RFC-5322 message (an attachment's content, garbage)
Bytes(id) ==
    [id |-> id, parsed |-> FALSE,
     from |-> [present |-> FALSE, ok |-> FALSE, addr |-> <<>>],
     mid |-> <<>>, date |-> NoDate, mimeOk |-> FALSE, atts |-> <<>>]

(***************************************************************************)
(* Inputs of the model: the bucket, the messages the mail receiver may     *)
(* have stored, the events and the environment.                            *)
(***************************************************************************)
Bucket == <<"mailmunch">>

Aug27 == [y |-> 2025, mo |-> 8, d |-> 27]

ReportCsv == [name |-> <<"report", ".", "csv">>, ctype |-> <<"text", "/", "csv">>, content |-> "csvA"]

\* a LoseIt export: From user@loseit.com, Date Wed, 27 Aug 2025 12:34 -0700
BaseMsg ==
    [id |-> "base", parsed |-> TRUE,
     from |-> [present |-> TRUE, ok |-> TRUE, addr |-> <<"user", "@", "loseit", ".", "com">>],
     mid |-> <<"<", "abc", ".", "def", "@", "domain", ".", "com", ">">>,
     date |-> [kind |-> "ok", day |-> Aug27, h |-> 12, off |-> -7],
     mimeOk |-> TRUE,
     atts |-> <<ReportCsv>>]

\* messages the domain filter turns away, and bytes that are no message
RejectedMsgs ==
    { [BaseMsg EXCEPT !.id = "nofrom",  !.from = [present |-> FALSE, ok |-> FALSE, addr |-> <<>>]],
      [BaseMsg EXCEPT !.id = "badfrom", !.from = [present |-> TRUE, ok |-> FALSE, addr |-> <<>>]],
      [BaseMsg EXCEPT !.id = "twoat",   !.from.addr = <<"a", "@", "b", "@", "loseit", ".", "com">>],
      [BaseMsg EXCEPT !.id = "noat",    !.from.addr = <<"loseit", ".", "com">>],
      [BaseMsg EXCEPT !.id = "evil",    !.from.addr = <<"user", "@", "evil", ".", "com">>],
      [BaseMsg EXCEPT !.id = "subdom",  !.from.addr = <<"user", "@", "mail", ".", "loseit", ".", "com">>] }

\* messages from the allowed domain, varying one header or the MIME part
AcceptedMsgs ==
    { BaseMsg,
      [BaseMsg EXCEPT !.id = "upper",   !.from.addr = <<"user", "@", "LoseIt", ".", "COM">>],
      [BaseMsg EXCEPT !.id = "nomid",   !.mid = <<>>],
      [BaseMsg EXCEPT !.id = "emptymid", !.mid = <<"<", " ", ">">>],
      [BaseMsg EXCEPT !.id = "runmid",  !.mid = <<" ", "<", "a", " ", "@", "!", "b", ">">>],
      [BaseMsg EXCEPT !.id = "nodate",  !.date = NoDate],
      [BaseMsg EXCEPT !.id = "baddate", !.date = [NoDate EXCEPT !.kind = "bad"]],
      [BaseMsg EXCEPT !.id = "late",    !.date = [kind |-> "ok", day |-> [y |-> 2025, mo |-> 8, d |-> 31], h |-> 20, off |-> -7]],
      [BaseMsg EXCEPT !.id = "badmime", !.mimeOk = FALSE],
      [BaseMsg EXCEPT !.id = "noatt",   !.atts = <<>>],
      [BaseMsg EXCEPT !.id = "twoatt",  !.atts = <<ReportCsv,
              [name |-> <<"notes", ".", "txt">>, ctype |-> <<"text", "/", "plain">>, content |-> "txt"],
              [name |-> <<".", ".", "/", "x", "/", "Report", ".", "CSV">>, ctype |-> <<"application", "/", "octet", "-", "stream">>, content |-> "csvB"],
              [name |-> <<" ">>, ctype |-> <<"text", "/", "csv">>, content |-> "csvC"],
              [name |-> <<"empty", ".", "csv">>, ctype |-> <<"text", "/", "csv">>, content |-> "nil"]>>] }

Messages == AcceptedMsgs \cup RejectedMsgs \cup {Bytes("garbage")}

\* the two objects the mail receiver stored under the incoming prefix
Src(n) == DefaultIncomingPrefix \o <<"m", DigitTok[n+1]>>

\* a key of the bucket outside the incoming prefix
OtherKey == <<"raw", "/", "other", "/", "m", "1">>

Rec(k) == [bucket |-> Bucket, key |-> k]

EnvNames == {"EMAIL_BUCKET", "INCOMING_PREFIX", "RAW_EMAIL_BASE", "RAW_CSV_BASE", "ALLOWED_SENDER_DOMAIN"}

Env(bucket, allowed) ==
    [n \in EnvNames |-> IF n = "EMAIL_BUCKET" THEN bucket
                        ELSE IF n = "ALLOWED_SENDER_DOMAIN" THEN allowed
                        ELSE <<>>]

\* the canonical CSV key of BaseMsg's attachment
CanonKey == PartitionedKey(DefaultRawCsvBase, <<Pad(2025, 4), Pad(8, 2), Pad(27, 2)>>, <<"report", ".", "csv">>)

\* the key ensureUniqueKey probes at its n-th attempt
ProbeKey(key, n) == IF n = 1 THEN key ELSE SuffixedKey(key, n)

\* CSV objects present before the behaviour starts, by attempt number
Occupied(ns) == [x \in {<<Bucket, ProbeKey(CanonKey, n)>> : n \in ns} |-> Bytes("old")]

Occupancies == {{}, {1}, {1, 2}, {1, 3}, 1..(MaxTry - 1), 1..MaxTry}

(***************************************************************************)
(* State.                                                                  *)
(***************************************************************************)
VARIABLES
    env,      \* the process environment of the Lambda
    serial,   \* TRUE when the platform runs one invocation at a time
    evt,      \* evt[i]: the records of invocation i's S3 event
    storage,  \* the object store
    clock,    \* the date of time.Now().UTC()
    ticks,    \* days the clock has advanced
    uuids,    \* number of identifiers uuid.New() has handed out
    faults,   \* number of calls the service has failed so far
    pc,       \* pc[i]: where invocation i stands in handler
    idx,      \* idx[i]: index of the record the loop is at
    loc,      \* loc[i]: the locals of handler and ensureUniqueKey
    ops,      \* ops[i]: the store calls invocation i has issued
    done,     \* done[i]: how each record of invocation i ended: "skipped",
              \* "success", "error", "panic" or the reason of the reject
    ret       \* ret[i]: what handler returned

vars == <<env, serial, evt, storage, clock, ticks, uuids, faults, pc, idx, loc, ops, done, ret>>

NoLoc == [src |-> <<>>, msg |-> Bytes("none"), ymd |-> <<>>, att |-> 0,
          key |-> <<>>, try |-> 0, k |-> <<>>]

\* number of attachment puts issued so far by invocations 1..n
RECURSIVE CsvPutCalls(_)
CsvPutCalls(n) ==
    IF n = 0 THEN 0
    ELSE Cardinality({m \in 1..Len(ops[n]) : ops[n][m].op = "putcsv"}) + CsvPutCalls(n - 1)

\* a store call in ops: the record and the locals l it was issued for,
\* the call, its key, whether it succeeded (for head: whether it found an
\* object), and whether an object was at the key when the call was made;
\* for an attachment put its place among all attachment puts, for a raw
\* put the date it was made on.  A probe is logged without the message.
Op(i, l, name, b, key, ok) ==
    [at |-> IF name = "putcsv" THEN CsvPutCalls(NumInv) + 1 ELSE 0,
     on |-> IF name = "putraw" THEN clock ELSE Aug27,
     rec |-> idx[i],
     src |-> IF name = "head" THEN <<>> ELSE l.src,
     msg |-> IF name = "head" THEN Bytes("none") ELSE l.msg,
     ymd |-> IF name = "head" THEN <<>> ELSE l.ymd,
     att |-> l.att, op |-> name, key |-> key, ok |-> ok,
     existed |-> Exists(storage, b, key)]

(***************************************************************************)
(* Configuration read by handler.                                          *)
(***************************************************************************)
bucketName     == Getenv(env, "EMAIL_BUCKET")
incomingPrefix == envOr(env, "INCOMING_PREFIX", DefaultIncomingPrefix)
rawEmailBase   == envOr(env, "RAW_EMAIL_BASE", DefaultRawEmailBase)
rawCsvBase     == envOr(env, "RAW_CSV_BASE", DefaultRawCsvBase)
allowedDomain  == envOr(env, "ALLOWED_SENDER_DOMAIN", DefaultAllowedDomain)

\* the outcomes of a call that would succeed if the service is up
Outcomes == IF faults < MaxFaults THEN BOOLEAN ELSE {TRUE}

\* the service failed the call, or not
Fault(failed) == faults' = IF failed THEN faults + 1 ELSE faults

Running(i) == pc[i] \notin {"init", "returned", "panicked"}

\* handler returns: the invocation is over
Return(i, r) ==
    /\ pc' = [pc EXCEPT ![i] = "returned"]
    /\ ret' = [ret EXCEPT ![i] = r]

\* the record at idx[i] ended as how; the loop goes to the next record
NextRecord(i, how) ==
    /\ done' = [done EXCEPT ![i] = Append(@, how)]
    /\ idx' = [idx EXCEPT ![i] = @ + 1]
    /\ pc' = [pc EXCEPT ![i] = "record"]
    /\ ret' = ret

\* the attachment loop with a failure of enmime.ReadEnvelope returned as an
\* error
ToAttachment_MimeFatal(i, l, j) ==
    LET n == IF l.msg.mimeOk THEN NextCsv(l.msg.atts, j) ELSE 0
        key == PartitionedKey(rawCsvBase, l.ymd, CsvLeaf(l.msg.atts[n]))
    IN IF ~l.msg.mimeOk
       THEN /\ Return(i, "error")
            /\ done' = [done EXCEPT ![i] = Append(@, "error")]
            /\ UNCHANGED <<idx, loc>>
       ELSE IF n = 0
       THEN /\ NextRecord(i, "success")
            /\ loc' = [loc EXCEPT ![i] = NoLoc]
       ELSE /\ loc' = [loc EXCEPT ![i] = [l EXCEPT !.att = n, !.key = key, !.try = 1, !.k = key]]
            /\ pc' = [pc EXCEPT ![i] = "probe"]
            /\ UNCHANGED <<idx, done, ret>>

\* the attachment loop from position j on: up to the next call of
\* ensureUniqueKey, or to the end of the record
ToAttachment(i, l, j) ==
    LET n == IF l.msg.mimeOk THEN NextCsv(l.msg.atts, j) ELSE 0
        key == PartitionedKey(rawCsvBase, l.ymd, CsvLeaf(l.msg.atts[n]))
    IN IF n = 0
       THEN /\ NextRecord(i, "success")
            /\ loc' = [loc EXCEPT ![i] = NoLoc]
       ELSE /\ loc' = [loc EXCEPT ![i] = [l EXCEPT !.att = n, !.key = key, !.try = 1, !.k = key]]
            /\ pc' = [pc EXCEPT ![i] = "probe"]
            /\ UNCHANGED <<idx, done, ret>>

(***************************************************************************)
(* The steps of handler.  Each step runs the code up to and including the  *)
(* next call to the object store.                                          *)
(***************************************************************************)
\* the platform invokes handler: EMAIL_BUCKET check and newS3Client.
\* Invocations are numbered in the order they are started.
Start(i) ==
    /\ pc[i] = "init"
    /\ \A j \in 1..(i - 1) : pc[j] # "init"
    /\ serial => \A j \in Inv \ {i} : ~Running(j)
    /\ \E clientOk \in (IF bucketName = <<>> THEN {TRUE} ELSE Outcomes) :
         /\ Fault(~clientOk)
         /\ IF bucketName = <<>> \/ ~clientOk
            THEN Return(i, "error")
            ELSE /\ pc' = [pc EXCEPT ![i] = "record"]
                 /\ ret' = ret
    /\ UNCHANGED <<env, serial, evt, storage, clock, ticks, uuids, idx, loc, ops, done>>

\* the head of the loop with a failed GetObject logged and the record
\* skipped
Fetch_SkipOnError(i) ==
    /\ pc[i] = "record"
    /\ IF idx[i] > Len(evt[i])
       THEN /\ Return(i, "nil")
            /\ UNCHANGED <<idx, loc, ops, done, storage, faults>>
       ELSE LET b == evt[i][idx[i]].bucket
                k == urlDecode(evt[i][idx[i]].key)
            IN IF ~HasPrefix(k, incomingPrefix)
               THEN /\ NextRecord(i, "skipped")
                    /\ UNCHANGED <<loc, ops, storage, faults>>
               ELSE \E ok \in (IF Exists(storage, b, k) THEN Outcomes ELSE {FALSE}) :
                      /\ Fault(Exists(storage, b, k) /\ ~ok)
                      /\ ops' = [ops EXCEPT ![i] = Append(@, Op(i,
                                   [NoLoc EXCEPT !.src = k, !.msg = IF ok THEN storage[<<b, k>>] ELSE @],
                                   "get", b, k, ok))]
                      /\ storage' = storage
                      /\ IF ok
                         THEN /\ loc' = [loc EXCEPT ![i] = [NoLoc EXCEPT !.src = k, !.msg = storage[<<b, k>>]]]
                              /\ pc' = [pc EXCEPT ![i] = "fetched"]
                              /\ UNCHANGED <<idx, done, ret>>
                         ELSE /\ NextRecord(i, "skipped")
                              /\ loc' = loc
    /\ UNCHANGED <<env, serial, evt, clock, ticks, uuids>>

\* the head of the loop over evt.Records: urlDecode, the prefix test and
\* GetObject
Fetch(i) ==
    /\ pc[i] = "record"
    /\ IF idx[i] > Len(evt[i])
       THEN /\ Return(i, "nil")
            /\ UNCHANGED <<idx, loc, ops, done, storage, faults>>
       ELSE LET b == evt[i][idx[i]].bucket
                k == urlDecode(evt[i][idx[i]].key)
            IN IF ~HasPrefix(k, incomingPrefix)
               THEN /\ NextRecord(i, "skipped")
                    /\ UNCHANGED <<loc, ops, storage, faults>>
               ELSE \E ok \in (IF Exists(storage, b, k) THEN Outcomes ELSE {FALSE}) :
                      /\ Fault(Exists(storage, b, k) /\ ~ok)
                      /\ ops' = [ops EXCEPT ![i] = Append(@, Op(i,
                                   [NoLoc EXCEPT !.src = k, !.msg = IF ok THEN storage[<<b, k>>] ELSE @],
                                   "get", b, k, ok))]
                      /\ storage' = storage
                      /\ IF ok
                         THEN /\ loc' = [loc EXCEPT ![i] = [NoLoc EXCEPT !.src = k, !.msg = storage[<<b, k>>]]]
                              /\ pc' = [pc EXCEPT ![i] = "fetched"]
                              /\ UNCHANGED <<idx, done, ret>>
                         ELSE /\ Return(i, "error")
                              /\ done' = [done EXCEPT ![i] = Append(@, "error")]
                              /\ UNCHANGED <<idx, loc>>
    /\ UNCHANGED <<env, serial, evt, clock, ticks, uuids>>

\* msg is nil and the domain check reads msg.Header: the runtime panics
NilDeref(i) ==
    /\ pc[i] = "fetched"
    /\ DomainFilter(loc[i].msg, allowedDomain) = "nil-deref"
    /\ pc' = [pc EXCEPT ![i] = "panicked"]
    /\ ret' = [ret EXCEPT ![i] = "panic"]
    /\ done' = [done EXCEPT ![i] = Append(@, "panic")]
    /\ UNCHANGED <<env, serial, evt, storage, clock, ticks, uuids, faults, idx, loc, ops>>

\* the reject step with a failed DeleteObject returned as an error
Reject_DeleteFailureFatal(i) ==
    /\ pc[i] = "fetched"
    /\ DomainFilter(loc[i].msg, allowedDomain) \in RejectReasons
    /\ LET b == evt[i][idx[i]].bucket
           k == loc[i].src
       IN \E ok \in Outcomes :
            /\ Fault(~ok)
            /\ ops' = [ops EXCEPT ![i] = Append(@, Op(i, loc[i], "delete", b, k, ok))]
            /\ storage' = IF ok THEN Delete(storage, b, k) ELSE storage
            /\ IF ok
               THEN NextRecord(i, DomainFilter(loc[i].msg, allowedDomain))
               ELSE /\ Return(i, "error")
                    /\ done' = [done EXCEPT ![i] = Append(@, "error")]
                    /\ idx' = idx
    /\ loc' = [loc EXCEPT ![i] = NoLoc]
    /\ UNCHANGED <<env, serial, evt, clock, ticks, uuids>>

\* the reject step keeping a raw copy of the message it turns away
Reject_WithRawCopy(i) ==
    /\ pc[i] = "fetched"
    /\ DomainFilter(loc[i].msg, allowedDomain) \in RejectReasons
    /\ LET b == evt[i][idx[i]].bucket
           k == loc[i].src
           msg == loc[i].msg
           ymd == dateParts(dateFromMessage(msg, clock), clock)
           rawKey == PartitionedKey(rawEmailBase, ymd, sanitizeMessageID(msg) \o <<".", "eml">>)
       IN \E ok \in Outcomes :
            /\ Fault(~ok)
            /\ ops' = [ops EXCEPT ![i] = Append(Append(@, Op(i, loc[i], "putraw", b, rawKey, TRUE)),
                                               Op(i, loc[i], "delete", b, k, ok))]
            /\ storage' = IF ok THEN Delete(Put(storage, b, rawKey, msg), b, k) ELSE Put(storage, b, rawKey, msg)
    /\ NextRecord(i, DomainFilter(loc[i].msg, allowedDomain))
    /\ loc' = [loc EXCEPT ![i] = NoLoc]
    /\ UNCHANGED <<env, serial, evt, clock, ticks, uuids>>

\* the domain check rejects: DeleteObject of the source, then continue
Reject(i) ==
    /\ pc[i] = "fetched"
    /\ DomainFilter(loc[i].msg, allowedDomain) \in RejectReasons
    /\ LET b == evt[i][idx[i]].bucket
           k == loc[i].src
       IN \E ok \in Outcomes :
            /\ Fault(~ok)
            /\ ops' = [ops EXCEPT ![i] = Append(@, Op(i, loc[i], "delete", b, k, ok))]
            /\ storage' = IF ok THEN Delete(storage, b, k) ELSE storage
    /\ NextRecord(i, DomainFilter(loc[i].msg, allowedDomain))
    /\ loc' = [loc EXCEPT ![i] = NoLoc]
    /\ UNCHANGED <<env, serial, evt, clock, ticks, uuids>>

\* the accept step as a move: the source is deleted once the raw copy is
\* written
PersistRaw_DeleteSource(i) ==
    /\ pc[i] = "fetched"
    /\ DomainFilter(loc[i].msg, allowedDomain) = "accept"
    /\ LET msg == loc[i].msg
           fresh == sanitizeMessageID(msg) = <<>>
           messageID == IF fresh THEN Uuid(uuids) ELSE sanitizeMessageID(msg)
           ymd == dateParts(dateFromMessage(msg, clock), clock)
           rawKey == PartitionedKey(rawEmailBase, ymd, messageID \o <<".", "eml">>)
           l == [loc[i] EXCEPT !.ymd = ymd]
       IN /\ uuids' = IF fresh THEN uuids + 1 ELSE uuids
          /\ \E ok \in Outcomes :
               /\ Fault(~ok)
               /\ IF ok
                  THEN /\ ops' = [ops EXCEPT ![i] = Append(Append(@, Op(i, l, "putraw", bucketName, rawKey, TRUE)),
                                                          Op(i, l, "delete", bucketName, l.src, TRUE))]
                       /\ storage' = Delete(Put(storage, bucketName, rawKey, msg), bucketName, l.src)
                       /\ ToAttachment(i, l, 1)
                  ELSE /\ ops' = [ops EXCEPT ![i] = Append(@, Op(i, l, "putraw", bucketName, rawKey, FALSE))]
                       /\ storage' = storage
                       /\ Return(i, "error")
                       /\ done' = [done EXCEPT ![i] = Append(@, "error")]
                       /\ UNCHANGED <<idx, loc>>
    /\ UNCHANGED <<env, serial, evt, clock, ticks>>

\* the accept step with a failed PutObject of the raw copy logged and the
\* attachments extracted all the same
PersistRaw_IgnoreError(i) ==
    /\ pc[i] = "fetched"
    /\ DomainFilter(loc[i].msg, allowedDomain) = "accept"
    /\ LET msg == loc[i].msg
           fresh == sanitizeMessageID(msg) = <<>>
           messageID == IF fresh THEN Uuid(uuids) ELSE sanitizeMessageID(msg)
           ymd == dateParts(dateFromMessage(msg, clock), clock)
           rawKey == PartitionedKey(rawEmailBase, ymd, messageID \o <<".", "eml">>)
       IN /\ uuids' = IF fresh THEN uuids + 1 ELSE uuids
          /\ \E ok \in Outcomes :
               /\ Fault(~ok)
               /\ ops' = [ops EXCEPT ![i] = Append(@, Op(i, [loc[i] EXCEPT !.ymd = ymd], "putraw", bucketName, rawKey, ok))]
               /\ storage' = IF ok THEN Put(storage, bucketName, rawKey, msg) ELSE storage
               /\ ToAttachment(i, [loc[i] EXCEPT !.ymd = ymd], 1)
    /\ UNCHANGED <<env, serial, evt, clock, ticks>>

\* the domain check accepts: message id, date, PutObject of the raw copy,
\* then enmime.ReadEnvelope and the attachment loop
PersistRaw(i) ==
    /\ pc[i] = "fetched"
    /\ DomainFilter(loc[i].msg, allowedDomain) = "accept"
    /\ LET msg == loc[i].msg
           fresh == sanitizeMessageID(msg) = <<>>
           messageID == IF fresh THEN Uuid(uuids) ELSE sanitizeMessageID(msg)
           ymd == dateParts(dateFromMessage(msg, clock), clock)
           rawKey == PartitionedKey(rawEmailBase, ymd, messageID \o <<".", "eml">>)
       IN /\ uuids' = IF fresh THEN uuids + 1 ELSE uuids
          /\ \E ok \in Outcomes :
               /\ Fault(~ok)
               /\ ops' = [ops EXCEPT ![i] = Append(@, Op(i, [loc[i] EXCEPT !.ymd = ymd], "putraw", bucketName, rawKey, ok))]
               /\ IF ok
                  THEN /\ storage' = Put(storage, bucketName, rawKey, msg)
                       /\ ToAttachment(i, [loc[i] EXCEPT !.ymd = ymd], 1)
                  ELSE /\ storage' = storage
                       /\ Return(i, "error")
                       /\ done' = [done EXCEPT ![i] = Append(@, "error")]
                       /\ UNCHANGED <<idx, loc>>
    /\ UNCHANGED <<env, serial, evt, clock, ticks>>

\* the attachment key used as it is, without a call of ensureUniqueKey
Probe_FirstKeyOnly(i) ==
    /\ pc[i] = "probe"
    /\ pc' = [pc EXCEPT ![i] = "write"]
    /\ UNCHANGED <<env, serial, evt, storage, clock, ticks, uuids, faults, idx, loc, ops, done, ret>>

\* one turn of the loop of ensureUniqueKey: HeadObject of k.  Any error of
\* HeadObject (the object is absent, or the call failed) ends the loop.
Probe(i) ==
    /\ pc[i] = "probe"
    /\ LET l == loc[i]
       IN \E found \in (IF Exists(storage, bucketName, l.k) THEN Outcomes ELSE {FALSE}) :
            /\ Fault(Exists(storage, bucketName, l.k) /\ ~found)
            /\ ops' = [ops EXCEPT ![i] = Append(@, Op(i, l, "head", bucketName, l.k, found))]
            /\ IF ~found
               THEN /\ pc' = [pc EXCEPT ![i] = "write"]
                    /\ UNCHANGED <<loc, uuids>>
               ELSE IF l.try + 1 > MaxTry
               THEN /\ loc' = [loc EXCEPT ![i] = [l EXCEPT !.try = l.try + 1, !.k = RandomKey(l.key, uuids)]]
                    /\ uuids' = uuids + 1
                    /\ pc' = [pc EXCEPT ![i] = "write"]
               ELSE /\ loc' = [loc EXCEPT ![i] = [l EXCEPT !.try = l.try + 1, !.k = SuffixedKey(l.key, l.try + 1)]]
                    /\ UNCHANGED <<pc, uuids>>
    /\ UNCHANGED <<env, serial, evt, storage, clock, ticks, idx, done, ret>>

\* the attachment put as a conditional write that leaves an existing
\* object alone
WriteCsv_KeepExisting(i) ==
    /\ pc[i] = "write"
    /\ LET l == loc[i]
       IN /\ \E ok \in Outcomes :
               /\ Fault(~ok)
               /\ ops' = [ops EXCEPT ![i] = Append(@, Op(i, l, "putcsv", bucketName, l.k, ok))]
               /\ storage' = IF ok /\ ~Exists(storage, bucketName, l.k)
                             THEN Put(storage, bucketName, l.k, Bytes(l.msg.atts[l.att].content))
                             ELSE storage
          /\ ToAttachment(i, l, l.att + 1)
    /\ UNCHANGED <<env, serial, evt, clock, ticks, uuids>>

\* the attachment put with its failure returned as an error
WriteCsv_FailureFatal(i) ==
    /\ pc[i] = "write"
    /\ LET l == loc[i]
       IN \E ok \in Outcomes :
            /\ Fault(~ok)
            /\ ops' = [ops EXCEPT ![i] = Append(@, Op(i, l, "putcsv", bucketName, l.k, ok))]
            /\ IF ok
               THEN /\ storage' = Put(storage, bucketName, l.k, Bytes(l.msg.atts[l.att].content))
                    /\ ToAttachment(i, l, l.att + 1)
               ELSE /\ storage' = storage
                    /\ Return(i, "error")
                    /\ done' = [done EXCEPT ![i] = Append(@, "error")]
                    /\ UNCHANGED <<idx, loc>>
    /\ UNCHANGED <<env, serial, evt, clock, ticks, uuids>>

\* PutObject of the attachment at the key ensureUniqueKey returned; a
\* failure is logged and the loop goes on
WriteCsv(i) ==
    /\ pc[i] = "write"
    /\ LET l == loc[i]
       IN /\ \E ok \in Outcomes :
               /\ Fault(~ok)
               /\ ops' = [ops EXCEPT ![i] = Append(@, Op(i, l, "putcsv", bucketName, l.k, ok))]
               /\ storage' = IF ok THEN Put(storage, bucketName, l.k, Bytes(l.msg.atts[l.att].content))
                             ELSE storage
          /\ ToAttachment(i, l, l.att + 1)
    /\ UNCHANGED <<env, serial, evt, clock, ticks, uuids>>

\* a day passes between two invocations
Tick ==
    /\ ticks < MaxTicks
    /\ \A i \in Inv : ~Running(i)
    /\ \E i \in Inv : pc[i] = "init"
    /\ \E i \in Inv : pc[i] # "init"
    /\ ticks' = ticks + 1
    /\ clock' = NextDay(clock)
    /\ UNCHANGED <<env, serial, evt, storage, uuids, faults, pc, idx, loc, ops, done, ret>>

Next ==
    \/ \E i \in Inv : Start(i)
    \/ \E i \in Inv : Fetch(i)
    \/ \E i \in Inv : NilDeref(i)
    \/ \E i \in Inv : Reject(i)
    \/ \E i \in Inv : PersistRaw(i)
    \/ \E i \in Inv : Probe(i)
    \/ \E i \in Inv : WriteCsv(i)
    \/ Tick

(***************************************************************************)
(* Initial states.  The mail receiver has stored two messages under the    *)
(* incoming prefix.  A scenario gives the events of invocations 1 and 2;   *)
(* any further invocation is notified of the second message.               *)
(***************************************************************************)
EvilMsg == [BaseMsg EXCEPT !.id = "evil", !.from.addr = <<"user", "@", "evil", ".", "com">>]

DefaultEnv == Env(Bucket, <<>>)

\* a second export of the same day, with the same attachment name
OtherExport ==
    [BaseMsg EXCEPT !.id = "other",
                    !.mid = <<"<", "xyz", "@", "domain", ".", "com", ">">>,
                    !.atts = <<[ReportCsv EXCEPT !.content = "csvZ"]>>]

\* invocation 1 is notified of both messages, invocation 2 is a redelivery
\* of the first
Redelivery == <<(<<Rec(Src(1)), Rec(Src(2))>>), (<<Rec(Src(1))>>)>>

\* each invocation is notified of one message
OneEach == <<(<<Rec(Src(1))>>), (<<Rec(Src(2))>>)>>

Scenario(m1, m2, occ, e, ev) == [m1 |-> m1, m2 |-> m2, occ |-> occ, env |-> e, ev |-> ev]

\* the inputs of a behaviour: the two messages, the CSV keys taken
\* beforehand, the environment and the events of invocations 1 and 2
Scenarios ==
    \* every message, followed by one the filter treats the other way
    { Scenario(m, IF m \in AcceptedMsgs THEN EvilMsg ELSE BaseMsg, {}, e, Redelivery) :
        m \in Messages, e \in {DefaultEnv, Env(Bucket, <<"LoseIt", ".", "COM">>)} }
    \cup
    \* two exports of the same day, with CSV keys already taken
    { Scenario(BaseMsg, OtherExport, occ, DefaultEnv, Redelivery) : occ \in {{}, {1}, {1, 2}, {1, 3}} }
    \cup
    \* (nearly) every key ensureUniqueKey probes is taken
    { Scenario(BaseMsg, EvilMsg, occ, DefaultEnv, OneEach) : occ \in {1..(MaxTry - 1), 1..MaxTry} }
    \cup
    \* EMAIL_BUCKET is not set; an event for a key outside the prefix
    { Scenario(BaseMsg, EvilMsg, {}, Env(<<>>, <<>>), Redelivery),
      Scenario(BaseMsg, EvilMsg, {}, DefaultEnv, <<(<<Rec(OtherKey), Rec(Src(1))>>), (<<Rec(Src(1))>>)>>) }

\* two invocations at the same time, each notified of one message
RaceScenarios ==
    { Scenario(BaseMsg, m, occ, DefaultEnv, OneEach) :
        m \in {OtherExport, EvilMsg, Bytes("garbage")}, occ \in {{}, {1}} }

InitFrom(sc, ser) ==
    /\ env = sc.env
    /\ serial = ser
    /\ evt = [i \in Inv |-> IF i <= 2 THEN sc.ev[i] ELSE <<Rec(Src(2))>>]
    /\ storage = Put(Put(Occupied(sc.occ), Bucket, Src(1), sc.m1), Bucket, Src(2), sc.m2)
    /\ clock = Aug27
    /\ ticks = 0
    /\ uuids = 0
    /\ faults = 0
    /\ pc = [i \in Inv |-> "init"]
    /\ idx = [i \in Inv |-> 1]
    /\ loc = [i \in Inv |-> NoLoc]
    /\ ops = [i \in Inv |-> <<>>]
    /\ done = [i \in Inv |-> <<>>]
    /\ ret = [i \in Inv |-> "none"]

\* invocations one at a time
Init == \E sc \in Scenarios : InitFrom(sc, TRUE)

Spec == Init /\ [][Next]_vars

\* invocations at the same time
InitRace == \E sc \in RaceScenarios : InitFrom(sc, FALSE)

SpecRace == InitRace /\ [][Next]_vars

(***************************************************************************)
(* What the store calls in ops tell about a behaviour.  The n-th call of   *)
(* invocation i is ops[i][n].                                              *)
(***************************************************************************)
\* the calls of kind name that invocation i issued
Calls(i, name) == {n \in 1..Len(ops[i]) : ops[i][n].op = name}

\* the calls of kind name that invocation i issued for its record r
OpsOf(i, r, name) == {n \in Calls(i, name) : ops[i][n].rec = r}

\* the fetches of invocation i that succeeded
Fetched(i) == {n \in Calls(i, "get") : ops[i][n].ok}

\* handler is past the domain check of record r
Decided(i, r) == ~(pc[i] = "fetched" /\ idx[i] = r)

\* processing of record r is over
Ended(i, r) == Len(done[i]) >= r

\* the From header as the spec describes an acceptable one, without
\* reference to the code: present, an address, exactly one "@", and the
\* part after it equal to the allowed domain ignoring case
AtCount(addr) == Cardinality({n \in 1..Len(addr) : addr[n] = "@"})

DomainOf(addr) == SubSeq(addr, LastIndex(addr, "@") + 1, Len(addr))

FromAcceptable(m, allowed) ==
    /\ m.from.present
    /\ m.from.ok
    /\ AtCount(m.from.addr) = 1
    /\ EqualFold(DomainOf(m.from.addr), allowed)

ExpectedReason(m) ==
    IF ~m.from.present THEN "no-from"
    ELSE IF ~m.from.ok THEN "invalid-from"
    ELSE IF AtCount(m.from.addr) # 1 THEN "malformed-address"
    ELSE "wrong-domain"

C2_FilterDecision ==
    \A i \in Inv : \A c \in Fetched(i) :
        LET g == ops[i][c]
        IN (Decided(i, g.rec) /\ g.msg.parsed /\ allowedDomain # <<>>) =>
            IF FromAcceptable(g.msg, allowedDomain)
            THEN /\ OpsOf(i, g.rec, "putraw") # {}
                 /\ OpsOf(i, g.rec, "delete") = {}
            ELSE /\ OpsOf(i, g.rec, "putraw") = {}
                 /\ OpsOf(i, g.rec, "delete") # {}
                 /\ done[i][g.rec] = ExpectedReason(g.msg)

\* C2 witness: a message accepted although its domain is spelled in
\* another case than the allowed domain, and a message rejected
C2_Witness ==
    /\ \E i \in Inv : \E p \in Calls(i, "putraw") :
          DomainOf(ops[i][p].msg.from.addr) # allowedDomain
    /\ \E i \in Inv : \E r \in 1..Len(done[i]) : done[i][r] \in RejectReasons

\* C3: when ALLOWED_SENDER_DOMAIN is the empty string the filter is off:
\* no source object is deleted and every fetched message is accepted.
C3_EmptyDomainDisablesFilter ==
    Getenv(env, "ALLOWED_SENDER_DOMAIN") = <<>> =>
        \A i \in Inv :
            /\ Calls(i, "delete") = {}
            /\ \A c \in Fetched(i) :
                 (Decided(i, ops[i][c].rec) /\ ops[i][c].msg.parsed) =>
                     OpsOf(i, ops[i][c].rec, "putraw") # {}

\* the attachments of message m for which a CSV put is due
CsvAttachments(m) ==
    IF m.mimeOk
    THEN {n \in 1..Len(m.atts) : IsCsvAttachment(m.atts[n]) /\ m.atts[n].content # "nil"}
    ELSE {}

\* C4: processing of every fetched record ends as success (raw copy
\* persisted, every selected attachment attempted), as Deleted (domain
\* reject, delete of the source issued) or with an error returned by
\* handler; the invocation never aborts.
C4_RecordEndsProperly ==
    \A i \in Inv :
        /\ pc[i] # "panicked"
        /\ \A c \in Fetched(i) :
             LET g == ops[i][c]
             IN Ended(i, g.rec) =>
                \/ /\ done[i][g.rec] = "success"
                   /\ \E p \in OpsOf(i, g.rec, "putraw") : ops[i][p].ok
                   /\ \A n \in CsvAttachments(g.msg) :
                        \E p \in OpsOf(i, g.rec, "putcsv") : ops[i][p].att = n
                \/ /\ done[i][g.rec] \in RejectReasons
                   /\ OpsOf(i, g.rec, "delete") # {}
                \/ /\ done[i][g.rec] = "error"
                   /\ ret[i] = "error"

\* the Message-ID header has a character other than angle brackets and
\* blanks, so that an identifier remains after trimming
HasMessageID(m) == \E n \in 1..Len(m.mid) : m.mid[n] \notin {"<", ">", " "}

\* C5 as stated: whenever and however often a message is processed, its
\* raw copy goes to one and the same key.
C5_RawWriteIdempotent ==
    \A i \in Inv : \A j \in Inv :
        \A p \in Calls(i, "putraw") : \A q \in Calls(j, "putraw") :
            ops[i][p].src = ops[j][q].src => ops[i][p].key = ops[j][q].key

\* C5 as amended: for a message whose Message-ID header yields an
\* identifier and whose Date header parses, every delivery writes the raw
\* copy to the same key, and once written the object is there.
C5_RawWriteIdempotentWithHeaders ==
    \A i \in Inv : \A j \in Inv :
        \A p \in Calls(i, "putraw") : \A q \in Calls(j, "putraw") :
            LET e == ops[i][p]
                f == ops[j][q]
            IN (e.src = f.src /\ HasMessageID(e.msg) /\ e.msg.date.kind = "ok") =>
                  /\ e.key = f.key
                  /\ e.ok => Exists(storage, bucketName, e.key)

\* C5 witness: the same message written twice, on different days, to the
\* same key
C5_Witness ==
    \E i \in Inv : \E j \in Inv :
        \E p \in Calls(i, "putraw") : \E q \in Calls(j, "putraw") :
            LET e == ops[i][p]
                f == ops[j][q]
            IN /\ e.src = f.src /\ e.ok /\ f.ok
               /\ HasMessageID(e.msg) /\ e.msg.date.kind = "ok"
               /\ e.on # f.on
               /\ e.key = f.key

\* C6 as stated: every delivery of a message derives the same partition.
C6_PartitionStable ==
    \A i \in Inv : \A j \in Inv :
        \A p \in Calls(i, "putraw") : \A q \in Calls(j, "putraw") :
            ops[i][p].src = ops[j][q].src => ops[i][p].ymd = ops[j][q].ymd

\* C6 as amended: every delivery of a message whose Date header parses
\* derives the same partition.
C6_PartitionStableWithDate ==
    \A i \in Inv : \A j \in Inv :
        \A p \in Calls(i, "putraw") : \A q \in Calls(j, "putraw") :
            (ops[i][p].src = ops[j][q].src /\ ops[i][p].msg.date.kind = "ok") =>
                ops[i][p].ymd = ops[j][q].ymd

\* C6 witness: two deliveries of a dated message on different days, with
\* a partition that is not the day of either delivery
C6_Witness ==
    \E i \in Inv : \E j \in Inv :
        \E p \in Calls(i, "putraw") : \E q \in Calls(j, "putraw") :
            LET e == ops[i][p]
                f == ops[j][q]
            IN /\ e.src = f.src /\ e.msg.date.kind = "ok"
               /\ e.on # f.on
               /\ e.ymd = f.ymd
               /\ e.ymd # dateParts(FormatDate(e.on), e.on)
               /\ e.ymd # dateParts(FormatDate(f.on), f.on)

\* C7: with one invocation at a time, no attachment put goes to a key
\* that holds an object.
C7_NoOverwrite ==
    serial => \A i \in Inv : \A p \in Calls(i, "putcsv") : ~ops[i][p].existed

\* the suffixes of key at which no object exists
FreeSuffixes(key) ==
    {n \in 2..MaxTry : ~Exists(storage, bucketName, SuffixedKey(key, n))}

\* C8: ensureUniqueKey returns the canonical key when no object is at it,
\* and otherwise the key with the smallest suffix in 2..50 at which no
\* object is.
C8_SmallestFreeKey ==
    serial => \A i \in Inv :
        pc[i] = "write" =>
            LET key == loc[i].key
                free == FreeSuffixes(key)
            IN /\ ~Exists(storage, bucketName, key) => loc[i].k = key
               /\ (Exists(storage, bucketName, key) /\ free # {}) =>
                     loc[i].k = SuffixedKey(key, CHOOSE n \in free : \A m \in free : n <= m)

\* the probes of the key resolution invocation i is in
Probes(i) == {h \in OpsOf(i, idx[i], "head") : ops[i][h].att = loc[i].att}

IsRandomKey(key, k) == \E u \in 0..(uuids - 1) : k = RandomKey(key, u)

\* C9: ensureUniqueKey issues at most 50 probes, all of the canonical key
\* or of a suffix -2..-50; when an object is at every one of these keys
\* it returns a random-suffixed key after exactly those 50 probes; a
\* numeric suffix it returns is in 2..50.
C9_BoundedProbing ==
    serial => \A i \in Inv :
        /\ pc[i] \in {"probe", "write"} =>
             /\ Cardinality(Probes(i)) <= MaxTry
             /\ \A h \in Probes(i) : \E n \in 1..MaxTry : ops[i][h].key = ProbeKey(loc[i].key, n)
        /\ pc[i] = "probe" => loc[i].try <= MaxTry
        /\ pc[i] = "write" =>
             LET key == loc[i].key
                 k == loc[i].k
             IN /\ (\A n \in 1..MaxTry : Exists(storage, bucketName, ProbeKey(key, n))) =>
                      /\ IsRandomKey(key, k)
                      /\ Cardinality(Probes(i)) = MaxTry
                /\ \/ k = key
                   \/ IsRandomKey(key, k)
                   \/ \E n \in 2..MaxTry : k = SuffixedKey(key, n)

\* the attachment puts of invocation i that succeeded
CsvPuts(i) == {p \in Calls(i, "putcsv") : ops[i][p].ok}

\* the bytes an attachment put carries
PutBody(e) == Bytes(e.msg.atts[e.att].content)

\* the probe that let the put e of invocation i go ahead saw no object,
\* and none was there
SawNotFound(i, e) ==
    \E h \in OpsOf(i, e.rec, "head") :
        /\ ops[i][h].att = e.att
        /\ ops[i][h].key = e.key
        /\ ~ops[i][h].ok
        /\ ~ops[i][h].existed

\* the put applied last to key holds bytes body
LastPutIs(key, body) ==
    \E i \in Inv : \E x \in CsvPuts(i) :
        /\ ops[i][x].key = key
        /\ PutBody(ops[i][x]) = body
        /\ \A j \in Inv : \A y \in CsvPuts(j) :
              ops[j][y].key = key => ops[j][y].at <= ops[i][x].at

\* C10: when two invocations have both probed a key while it was absent
\* and have both put an attachment there, the later put found an object
\* at the key, the object now at the key holds the bytes of the put
\* applied last, and both records go on without an error.
C10_LastWriterWins ==
    \A i \in Inv : \A j \in Inv \ {i} :
        \A p \in CsvPuts(i) : \A q \in CsvPuts(j) :
            LET e == ops[i][p]
                f == ops[j][q]
            IN (e.key = f.key /\ e.at < f.at /\ SawNotFound(i, e) /\ SawNotFound(j, f)) =>
                  /\ f.existed
                  /\ Exists(storage, bucketName, e.key)
                  /\ LastPutIs(e.key, storage[<<bucketName, e.key>>])
                  /\ Ended(i, e.rec) => done[i][e.rec] = "success"
                  /\ Ended(j, f.rec) => done[j][f.rec] = "success"
                  /\ ret[i] # "error" /\ ret[j] # "error"

\* C10 witness: both invocations saw the key absent, both put it, both
\* returned nil, and only the later attachment's bytes are under the key
C10_Witness ==
    \E i \in Inv : \E j \in Inv \ {i} :
        \E p \in CsvPuts(i) : \E q \in CsvPuts(j) :
            LET e == ops[i][p]
                f == ops[j][q]
            IN /\ e.key = f.key /\ e.at < f.at
               /\ SawNotFound(i, e) /\ SawNotFound(j, f)
               /\ PutBody(e) # PutBody(f)
               /\ storage[<<bucketName, e.key>>] = PutBody(f)
               /\ ret[i] = "nil" /\ ret[j] = "nil"

\* a probe of key by the key resolution of put e of invocation i that
\* reported no object
ProbedAbsent(i, e, key) ==
    \E h \in OpsOf(i, e.rec, "head") :
        ops[i][h].att = e.att /\ ops[i][h].key = key /\ ~ops[i][h].ok

\* f is the put of a later processing of the attachment that e put
Reprocessed(i, e, j, f) ==
    i # j /\ e.src = f.src /\ e.att = f.att /\ e.at < f.at /\ e.ok /\ f.ok

\* C11 as stated: with one invocation at a time, the attachment put of a
\* later processing of a message creates no object: it goes to the key
\* the first processing wrote, which holds an object.
C11_CsvWriteIdempotent ==
    serial => \A i \in Inv : \A j \in Inv :
        \A p \in CsvPuts(i) : \A q \in CsvPuts(j) :
            Reprocessed(i, ops[i][p], j, ops[j][q]) =>
                ops[j][q].key = ops[i][p].key /\ ops[j][q].existed

\* C11 as amended: with one invocation at a time, a later processing of a
\* message puts each attachment under another key than the first
\* processing did, and objects are at both keys afterwards, unless its
\* probe of the first key reported no object.
C11_ReprocessingAddsKey ==
    serial => \A i \in Inv : \A j \in Inv :
        \A p \in CsvPuts(i) : \A q \in CsvPuts(j) :
            LET e == ops[i][p]
                f == ops[j][q]
            IN (Reprocessed(i, e, j, f) /\ ~ProbedAbsent(j, f, e.key)) =>
                  /\ f.key # e.key
                  /\ Exists(storage, bucketName, e.key)
                  /\ Exists(storage, bucketName, f.key)

\* C11 witness: the first processing wrote the canonical key, the second
\* found it and created the key with suffix -2, holding the same bytes
C11_Witness ==
    \E i \in Inv : \E j \in Inv :
        \E p \in CsvPuts(i) : \E q \in CsvPuts(j) :
            LET e == ops[i][p]
                f == ops[j][q]
            IN /\ Reprocessed(i, e, j, f)
               /\ e.key = CanonKey /\ ~e.existed
               /\ f.key = SuffixedKey(CanonKey, 2) /\ ~f.existed
               /\ storage[<<bucketName, e.key>>] = storage[<<bucketName, f.key>>]

\* the fetches of invocation i that failed
FetchFailed(i) == {n \in Calls(i, "get") : ~ops[i][n].ok}

\* C12: when the fetch of a record fails, handler returns an error, the
\* failed fetch is the last store call of the invocation (so no put, probe
\* or delete follows for this or a later record), the loop stops at that
\* record, and the raw copies written and the sources deleted for earlier
\* records stay as they were.
C12_FetchFailureFatal ==
    \A i \in Inv : \A g \in FetchFailed(i) :
        /\ pc[i] = "returned"
        /\ ret[i] = "error"
        /\ g = Len(ops[i])
        /\ idx[i] = ops[i][g].rec
        /\ Len(done[i]) = ops[i][g].rec
        /\ done[i][ops[i][g].rec] = "error"
        /\ \A n \in 1..(g - 1) :
              /\ (ops[i][n].op = "putraw" /\ ops[i][n].ok) =>
                     Exists(storage, bucketName, ops[i][n].key)
              /\ (ops[i][n].op = "delete" /\ ops[i][n].ok) =>
                     ~Exists(storage, Bucket, ops[i][n].key)

\* C12 witness: the first record was persisted, the fetch of the second
\* failed although the object is there, and handler returned an error
C12_Witness ==
    \E i \in Inv : \E g \in FetchFailed(i) :
        /\ ops[i][g].rec = 2
        /\ ops[i][g].existed
        /\ done[i][1] = "success"
        /\ \E n \in Calls(i, "putraw") : ops[i][n].ok
        /\ ret[i] = "error"

\* the raw puts of invocation i that failed
RawPutFailed(i) == {n \in Calls(i, "putraw") : ~ops[i][n].ok}

\* C13: when the put of the raw copy fails, handler returns an error and
\* issues no probe and no attachment put for that record.
C13_RawPersistFailureFatal ==
    \A i \in Inv : \A p \in RawPutFailed(i) :
        /\ pc[i] = "returned"
        /\ ret[i] = "error"
        /\ done[i][ops[i][p].rec] = "error"
        /\ OpsOf(i, ops[i][p].rec, "head") = {}
        /\ OpsOf(i, ops[i][p].rec, "putcsv") = {}
        /\ p = Len(ops[i])

\* C13 witness: the raw put of a message with a CSV attachment failed
C13_Witness ==
    \E i \in Inv : \E p \in RawPutFailed(i) :
        /\ CsvAttachments(ops[i][p].msg) # {}
        /\ ret[i] = "error"

\* the attachment puts of invocation i that failed
CsvPutFailed(i) == {n \in Calls(i, "putcsv") : ~ops[i][n].ok}

\* C14: when the put of an attachment fails, the record still ends as a
\* success with every selected attachment after it attempted, the loop
\* goes on to the later records, and an error handler returns stems from
\* a later record.
C14_AttachmentFailureNonFatal ==
    \A i \in Inv : \A p \in CsvPutFailed(i) :
        LET e == ops[i][p]
        IN /\ ~(pc[i] \in {"returned", "panicked"} /\ Len(done[i]) < e.rec)
           /\ Ended(i, e.rec) =>
                /\ done[i][e.rec] = "success"
                /\ \A n \in CsvAttachments(e.msg) :
                      n > e.att => \E q \in OpsOf(i, e.rec, "putcsv") : ops[i][q].att = n
                /\ ret[i] \in {"error", "panic"} => Len(done[i]) > e.rec
                /\ ret[i] = "nil" => Len(done[i]) = Len(evt[i])

\* C14 witness: the first attachment put failed, two later attachments
\* of the message were written, the next record was processed and handler
\* returned nil
C14_Witness ==
    \E i \in Inv : \E p \in CsvPutFailed(i) :
        LET e == ops[i][p]
        IN /\ Cardinality({q \in OpsOf(i, e.rec, "putcsv") : ops[i][q].att > e.att /\ ops[i][q].ok}) >= 2
           /\ Len(done[i]) > e.rec
           /\ ret[i] = "nil"

\* C15: for a message that passed the domain check and whose MIME
\* structure enmime cannot read, the raw put is issued and neither a probe
\* nor an attachment put; when the raw put succeeds the raw copy is in
\* storage, the record ends as a success and an error handler returns
\* stems from a later record.
C15_MimeFailureRawOnly ==
    \A i \in Inv : \A c \in Fetched(i) :
        LET g == ops[i][c]
        IN (Decided(i, g.rec) /\ DomainFilter(g.msg, allowedDomain) = "accept" /\ ~g.msg.mimeOk) =>
              /\ Cardinality(OpsOf(i, g.rec, "putraw")) = 1
              /\ OpsOf(i, g.rec, "head") = {}
              /\ OpsOf(i, g.rec, "putcsv") = {}
              /\ \A p \in OpsOf(i, g.rec, "putraw") :
                    ops[i][p].ok =>
                       /\ Exists(storage, bucketName, ops[i][p].key)
                       /\ Ended(i, g.rec)
                       /\ done[i][g.rec] = "success"
                       /\ ret[i] \in {"error", "panic"} => Len(done[i]) > g.rec

\* C15 witness: a message with a CSV attachment in a MIME structure that
\* cannot be read was persisted raw, and handler returned nil
C15_Witness ==
    \E i \in Inv : \E p \in Calls(i, "putraw") :
        /\ ops[i][p].ok
        /\ ~ops[i][p].msg.mimeOk
        /\ ops[i][p].msg.atts # <<>>
        /\ done[i][ops[i][p].rec] = "success"
        /\ ret[i] = "nil"

(***************************************************************************)
(* The transform Lambda (lambda/transform/main.go): pure functions.        *)
(* A CSV text is the sequence of records encoding/csv reads from it: each  *)
(* is a sequence of fields, or a syntax error of the reader.               *)
(***************************************************************************)
\* strings.ReplaceAll(s, " ", "_")
SpaceToUnderscore(s) == [n \in 1..Len(s) |-> IF s[n] = " " THEN "_" ELSE s[n]]

\* norm: trimmed, spaces to underscores, lower case
norm(s) == ToLower(SpaceToUnderscore(TrimSpace(s)))

\* strings.TrimPrefix(s, p)
TrimPrefix(s, p) == IF HasPrefix(s, p) THEN SubSeq(s, Len(p) + 1, Len(s)) ELSE s

\* the value extractYMD takes from the segments of key that start with
\* tag: that of the last such segment, "" when there is none
TaggedSegment(key, tag) ==
    LET segs == Split(key, "/")
        hits == {n \in 1..Len(segs) : HasPrefix(segs[n], tag)}
    IN IF hits = {} THEN <<>>
       ELSE TrimPrefix(segs[CHOOSE n \in hits : \A m \in hits : n >= m], tag)

\* extractYMD
extractYMD(key) ==
    <<TaggedSegment(key, <<"year", "=">>),
      TaggedSegment(key, <<"month", "=">>),
      TaggedSegment(key, <<"day", "=">>)>>

\* the row parseCSV builds from the fields rec under the header hdr: the
\* columns beyond the header are dropped, a later column of the same name
\* replaces an earlier one
CsvRow(hdr, rec) ==
    LET cols == {n \in 1..Len(rec) : n <= Len(hdr)}
    IN [h \in {hdr[n] : n \in cols} |->
           TrimSpace(rec[CHOOSE n \in cols : hdr[n] = h /\ \A m \in cols : hdr[m] = h => m <= n])]

\* parseCSV that leaves out a record the reader cannot read and goes on
parseCSV_SkipBad(b) ==
    IF Len(b) = 0 \/ b[1].bad
    THEN [ok |-> FALSE, rows |-> <<>>]
    ELSE LET hdr == [n \in 1..Len(b[1].fields) |-> norm(b[1].fields[n])]
             good == SelectSeq(Tail(b), LAMBDA l : ~l.bad)
         IN [ok |-> TRUE,
             rows |-> [n \in 1..Len(good) |-> CsvRow(hdr, good[n].fields)]]

\* parseCSV with a reader that takes the header's number of fields for
\* every record (FieldsPerRecord = 0)
parseCSV_Strict(b) ==
    IF Len(b) = 0 \/ \E n \in 1..Len(b) : b[n].bad \/ Len(b[n].fields) # Len(b[1].fields)
    THEN [ok |-> FALSE, rows |-> <<>>]
    ELSE LET hdr == [n \in 1..Len(b[1].fields) |-> norm(b[1].fields[n])]
         IN [ok |-> TRUE,
             rows |-> [n \in 1..(Len(b) - 1) |-> CsvRow(hdr, b[n + 1].fields)]]

\* parseCSV: [ok, rows]; ok = FALSE when the reader returns an error, for
\* the header (also io.EOF of an empty text) or for a later record
parseCSV(b) ==
    IF Len(b) = 0 \/ \E n \in 1..Len(b) : b[n].bad
    THEN [ok |-> FALSE, rows |-> <<>>]
    ELSE LET hdr == [n \in 1..Len(b[1].fields) |-> norm(b[1].fields[n])]
         IN [ok |-> TRUE,
             rows |-> [n \in 1..(Len(b) - 1) |-> CsvRow(hdr, b[n + 1].fields)]]

\* the characters of the class [0-9.\-]
NumericToks == {"0", "1", "2", "3", "4", "5", "6", "7", "8", "9", ".", "-"}

\* regexp.MustCompile(`[^0-9.\-]+`).ReplaceAllString(s, "")
StripNonNumeric(s) ==
    LET f[n \in 0..Len(s)] ==
          IF n = 0 THEN <<>>
          ELSE IF s[n] \in NumericToks THEN f[n-1] \o <<s[n]>>
          ELSE f[n-1]
    IN f[Len(s)]

\* strconv.ParseFloat accepts clean, a text over [0-9.\-]: an optional
\* leading minus, digits with at most one dot, at least one digit
IsFloatText(clean) ==
    LET digits == {n \in 1..Len(clean) : clean[n] \notin {".", "-"}}
        dots == {n \in 1..Len(clean) : clean[n] = "."}
        minus == {n \in 1..Len(clean) : clean[n] = "-"}
    IN /\ digits # {}
       /\ Cardinality(dots) <= 1
       /\ minus \subseteq {1}

\* parseFloat: [ok, val]; the number is written as its cleaned text
parseFloat(s) ==
    LET clean == StripNonNumeric(s)
    IN IF clean = <<>> THEN [ok |-> FALSE, val |-> <<>>]
       ELSE [ok |-> IsFloatText(clean), val |-> IF IsFloatText(clean) THEN clean ELSE <<>>]

\* a nil pointer field of LoseItLog
Null == [null |-> TRUE, v |-> <<>>]

\* mapRow's pstr
pstr(s) == IF s = <<>> THEN Null ELSE [null |-> FALSE, v |-> s]

\* mapRow's pfloat that converts the text as it stands
pfloat_Unstripped(s) ==
    IF s = <<>> THEN Null
    ELSE IF (\A n \in 1..Len(s) : s[n] \in NumericToks) /\ IsFloatText(s)
         THEN [null |-> FALSE, v |-> s]
         ELSE Null

\* mapRow's pfloat
pfloat(s) ==
    IF s = <<>> THEN Null
    ELSE IF ~parseFloat(s).ok THEN Null
    ELSE [null |-> FALSE, v |-> parseFloat(s).val]

\* a get that passes over a column whose value is empty
get_SkipEmpty(row, keys) ==
    LET hits == {n \in 1..Len(keys) : norm(keys[n]) \in DOMAIN row /\ row[norm(keys[n])] # <<>>}
    IN IF hits = {} THEN <<>>
       ELSE row[norm(keys[CHOOSE n \in hits : \A m \in hits : n <= m])]

\* mapRow's get: the value of the first of keys that is a column of row
get(row, keys) ==
    LET hits == {n \in 1..Len(keys) : norm(keys[n]) \in DOMAIN row}
    IN IF hits = {} THEN <<>>
       ELSE row[norm(keys[CHOOSE n \in hits : \A m \in hits : n <= m])]

\* strings.Contains(s, "exercise"), over the letter runs the model uses
ContainsExercise(s) == \E n \in 1..Len(s) : s[n] \in {"exercise", "exercises"}

\* mapRow's record type that leaves out the default and the heuristic
recordTypeOf_NoDefault(row) == get(row, <<(<<"record", "_", "type">>), (<<"type">>)>>)

\* mapRow: rt, the record type
recordTypeOf(row) ==
    LET rt0 == get(row, <<(<<"record", "_", "type">>), (<<"type">>)>>)
    IN IF rt0 # <<>> THEN rt0
       ELSE IF get(row, <<(<<"type">>)>>) = <<"Exercise">>
               \/ ContainsExercise(ToLower(get(row, <<(<<"name">>)>>)))
            THEN <<"exercise">>
            ELSE <<"food">>

\* mapRow's meal that takes the meal of every row
mealOf_Always(row, rt) == pstr(get(row, <<(<<"type">>)>>))

\* mapRow: meal
mealOf(row, rt) ==
    LET mealRaw == get(row, <<(<<"type">>)>>)
    IN IF rt = <<"exercise">> THEN Null ELSE pstr(mealRaw)

\* mapRow
mapRow(row) ==
    LET rt == recordTypeOf(row)
    IN [record_type |-> pstr(rt),
        date |-> pstr(get(row, <<(<<"date">>)>>)),
        meal |-> mealOf(row, rt),
        name |-> pstr(get(row, <<(<<"name">>), (<<"food">>), (<<"exercise">>)>>)),
        quantity |-> pfloat(get(row, <<(<<"quantity">>), (<<"amount">>)>>)),
        units |-> pstr(get(row, <<(<<"units">>), (<<"unit">>)>>)),
        calories |-> pfloat(get(row, <<(<<"calories">>), (<<"kcal">>)>>)),
        protein_g |-> pfloat(get(row, <<(<<"protein", "_", "(", "g", ")">>), (<<"protein">>)>>)),
        fat_g |-> pfloat(get(row, <<(<<"fat", "_", "(", "g", ")">>), (<<"fat">>)>>)),
        carbs_g |-> pfloat(get(row, <<(<<"carbohydrates", "_", "(", "g", ")">>), (<<"carbs">>), (<<"carbohydrates">>)>>)),
        fiber_g |-> pfloat(get(row, <<(<<"fiber", "_", "(", "g", ")">>), (<<"fiber">>)>>)),
        sodium_mg |-> pfloat(get(row, <<(<<"sodium", "_", "(", "mg", ")">>), (<<"sodium">>)>>)),
        sugar_g |-> pfloat(get(row, <<(<<"sugars", "_", "(", "g", ")">>), (<<"sugar">>)>>)),
        duration_minutes |-> pfloat(get(row, <<(<<"duration", "_", "minutes">>), (<<"duration">>)>>)),
        distance_km |-> pfloat(get(row, <<(<<"distance", "_", "km">>), (<<"distance">>)>>))]

\* the columnar file the writer holds after w.Write of every row and
\* w.Close: the LoseItLog records in the order of the rows
Parquet(rows) == [id |-> "parquet", recs |-> [n \in 1..Len(rows) |-> mapRow(rows[n])]]

\* the key of the columnar file without its partition
outKey_Flat(base, ymd) ==
    base \o <<"part", "-", "0", "0", "0", "0", ".", "snappy", ".", "parquet">>

\* the key of the columnar file
outKey(base, ymd) ==
    PartitionedKey(base, ymd, <<"part", "-", "0", "0", "0", "0", ".", "snappy", ".", "parquet">>)

(***************************************************************************)
(* The transform Lambda: inputs.                                           *)
(***************************************************************************)
DefaultCuratedBase == <<"curated", "/", "loseit", "_", "parquet", "/">>

\* one record of a CSV text as the reader returns it
Line(fields) == [bad |-> FALSE, fields |-> fields]

\* a record at which the reader returns a syntax error
BadLine == [bad |-> TRUE, fields |-> <<>>]

CsvHeader ==
    Line(<<(<<"Date">>), (<<"Name">>), (<<"Type">>), (<<"Quantity">>), (<<"Units">>),
           (<<"Calories">>), (<<"Fat", " ", "(", "g", ")">>)>>)

BreakfastLine ==
    Line(<<(<<"0", "8", "/", "2", "7", "/", "2", "0", "2", "5">>), (<<"Oatmeal">>), (<<"Breakfast">>),
           (<<"1", ".", "5">>), (<<"Cups">>), (<<"1", ",", "2", "3", "4", ".", "5", " ", "cal">>), (<<"n", "/", "a">>)>>)

ExerciseLine ==
    Line(<<(<<"0", "8", "/", "2", "7", "/", "2", "0", "2", "5">>), (<<"Running">>), (<<"Exercise">>),
           (<<"3", "0">>), (<<"Minutes">>), (<<"-", "3", "0", "0">>)>>)

\* the bytes of a CSV object as encoding/csv reads them
CsvText(body) ==
    CASE body.id = "csvA" -> <<CsvHeader, BreakfastLine, ExerciseLine>>
      [] body.id = "csvZ" -> <<CsvHeader, ExerciseLine>>
      [] body.id = "csvB" -> <<CsvHeader, BreakfastLine>>
      [] body.id = "csvC" -> <<CsvHeader, ExerciseLine, BreakfastLine>>
      [] body.id = "csvHdr" -> <<CsvHeader>>
      [] body.id = "csvBad" -> <<CsvHeader, BreakfastLine, BadLine, ExerciseLine>>
      [] OTHER -> <<>>

\* a second CSV of the partition of CanonKey, one of the next day, and
\* one outside any partition
SecondKey == SuffixedKey(CanonKey, 2)

NextDayKey ==
    PartitionedKey(DefaultRawCsvBase, <<Pad(2025, 4), Pad(8, 2), Pad(28, 2)>>, <<"report", ".", "csv">>)

UndatedKey == DefaultRawCsvBase \o <<"some", "_", "file", ".", "csv">>

\* the key as an S3 event notification carries it: "=" as %3D, a blank
\* as "+"
RECURSIVE EventEncoded(_)
EventEncoded(key) ==
    IF key = <<>> THEN <<>>
    ELSE (IF Head(key) = "=" THEN <<"%", "3", "D">>
          ELSE IF Head(key) = " " THEN <<"+">>
          ELSE <<Head(key)>>) \o EventEncoded(Tail(key))

TransformEnvNames == EnvNames \cup {"DATA_BUCKET", "CURATED_BASE"}

TransformEnv(bucket) == [n \in TransformEnvNames |-> IF n = "DATA_BUCKET" THEN bucket ELSE <<>>]

(***************************************************************************)
(* The transform Lambda: handler.  The variables are those of the ingest   *)
(* Lambda; loc[i] holds key, ymd and the encoder's buffer.                 *)
(***************************************************************************)
dataBucket  == Getenv(env, "DATA_BUCKET")
\* the columnar base placed under the raw-CSV base
curatedBase_UnderRawCsv == envOr(env, "RAW_CSV_BASE", DefaultRawCsvBase) \o <<"curated", "/">>

curatedBase == envOr(env, "CURATED_BASE", DefaultCuratedBase)

\* number of puts of a columnar file issued so far by invocations 1..n
RECURSIVE ParquetPutCalls(_)
ParquetPutCalls(n) ==
    IF n = 0 THEN 0
    ELSE Cardinality({m \in 1..Len(ops[n]) : ops[n][m].op = "putpq"}) + ParquetPutCalls(n - 1)

\* a store call of the transform handler in ops: the record it was issued
\* for, the key the event carried, the key of the call, the partition
\* extractYMD gave, the bytes read or written, whether the call succeeded
\* and whether an object was at the key; for a put its place among all
\* puts
TransformOp(i, name, b, key, ymd, body, ok) ==
    [at |-> IF name = "putpq" THEN ParquetPutCalls(NumInv) + 1 ELSE 0,
     rec |-> idx[i], evkey |-> evt[i][idx[i]].key, op |-> name, key |-> key,
     ymd |-> ymd, body |-> body, ok |-> ok, existed |-> Exists(storage, b, key)]

\* handler goes on to the records whether or not DATA_BUCKET is set
TransformStart_NoBucketCheck(i) ==
    /\ pc[i] = "init"
    /\ \A j \in 1..(i - 1) : pc[j] # "init"
    /\ serial => \A j \in Inv \ {i} : ~Running(j)
    /\ \E clientOk \in Outcomes :
         /\ Fault(~clientOk)
         /\ IF ~clientOk
            THEN Return(i, "error")
            ELSE /\ pc' = [pc EXCEPT ![i] = "record"]
                 /\ ret' = ret
    /\ UNCHANGED <<env, serial, evt, storage, clock, ticks, uuids, idx, loc, ops, done>>

\* handler is invoked: DATA_BUCKET check, prefixes and newS3Client
TransformStart(i) ==
    /\ pc[i] = "init"
    /\ \A j \in 1..(i - 1) : pc[j] # "init"
    /\ serial => \A j \in Inv \ {i} : ~Running(j)
    /\ \E clientOk \in (IF dataBucket = <<>> THEN {TRUE} ELSE Outcomes) :
         /\ Fault(~clientOk)
         /\ IF dataBucket = <<>> \/ ~clientOk
            THEN Return(i, "error")
            ELSE /\ pc' = [pc EXCEPT ![i] = "record"]
                 /\ ret' = ret
    /\ UNCHANGED <<env, serial, evt, storage, clock, ticks, uuids, idx, loc, ops, done>>

\* the head of the loop over evt.Records: the prefix test, extractYMD,
\* GetObject with io.ReadAll, parseCSV, and the encoding of the rows (the
\* writer's Write and Close); the first of these that fails returns its
\* error
TransformFetch(i) ==
    /\ pc[i] = "record"
    /\ IF idx[i] > Len(evt[i])
       THEN /\ Return(i, "nil")
            /\ UNCHANGED <<idx, loc, ops, done, faults>>
       ELSE LET b == evt[i][idx[i]].bucket
                key == evt[i][idx[i]].key
                ymd == extractYMD(key)
            IN IF ~HasPrefix(key, rawCsvBase)
               THEN /\ NextRecord(i, "skipped")
                    /\ UNCHANGED <<loc, ops, faults>>
               ELSE \E ok \in (IF Exists(storage, b, key) THEN Outcomes ELSE {FALSE}) :
                    \E encoded \in (IF ok /\ parseCSV(CsvText(storage[<<b, key>>])).ok THEN Outcomes ELSE {TRUE}) :
                      /\ ~(~ok /\ ~encoded)
                      /\ Fault((Exists(storage, b, key) /\ ~ok) \/ ~encoded)
                      /\ ops' = [ops EXCEPT ![i] = Append(@, TransformOp(i, "get", b, key, ymd,
                                    IF ok THEN storage[<<b, key>>] ELSE Bytes("none"), ok))]
                      /\ IF ok /\ encoded /\ parseCSV(CsvText(storage[<<b, key>>])).ok
                         THEN /\ loc' = [loc EXCEPT ![i] =
                                   [key |-> key, ymd |-> ymd,
                                    buf |-> Parquet(parseCSV(CsvText(storage[<<b, key>>])).rows)]]
                              /\ pc' = [pc EXCEPT ![i] = "put"]
                              /\ UNCHANGED <<idx, done, ret>>
                         ELSE /\ Return(i, "error")
                              /\ done' = [done EXCEPT ![i] = Append(@, "error")]
                              /\ UNCHANGED <<idx, loc>>
    /\ UNCHANGED <<env, serial, evt, storage, clock, ticks, uuids>>

\* the put that adds the rows to the columnar file already at the key
TransformPut_Merge(i) ==
    /\ pc[i] = "put"
    /\ LET l == loc[i]
           k == outKey(curatedBase, l.ymd)
           merged == IF Exists(storage, dataBucket, k)
                     THEN [l.buf EXCEPT !.recs = storage[<<dataBucket, k>>].recs \o @]
                     ELSE l.buf
       IN \E ok \in Outcomes :
            /\ Fault(~ok)
            /\ ops' = [ops EXCEPT ![i] = Append(@, TransformOp(i, "putpq", dataBucket, k, l.ymd, l.buf, ok))]
            /\ IF ok
               THEN /\ storage' = Put(storage, dataBucket, k, merged)
                    /\ NextRecord(i, "success")
               ELSE /\ storage' = storage
                    /\ Return(i, "error")
                    /\ done' = [done EXCEPT ![i] = Append(@, "error")]
                    /\ idx' = idx
    /\ loc' = [loc EXCEPT ![i] = NoLoc]
    /\ UNCHANGED <<env, serial, evt, clock, ticks, uuids>>

\* PutObject of the columnar file at outKey; its error is returned
TransformPut(i) ==
    /\ pc[i] = "put"
    /\ LET l == loc[i]
           k == outKey(curatedBase, l.ymd)
       IN \E ok \in Outcomes :
            /\ Fault(~ok)
            /\ ops' = [ops EXCEPT ![i] = Append(@, TransformOp(i, "putpq", dataBucket, k, l.ymd, l.buf, ok))]
            /\ IF ok
               THEN /\ storage' = Put(storage, dataBucket, k, l.buf)
                    /\ NextRecord(i, "success")
               ELSE /\ storage' = storage
                    /\ Return(i, "error")
                    /\ done' = [done EXCEPT ![i] = Append(@, "error")]
                    /\ idx' = idx
    /\ loc' = [loc EXCEPT ![i] = NoLoc]
    /\ UNCHANGED <<env, serial, evt, clock, ticks, uuids>>

TransformNext ==
    \/ \E i \in Inv : TransformStart(i)
    \/ \E i \in Inv : TransformFetch(i)
    \/ \E i \in Inv : TransformPut(i)

(***************************************************************************)
(* Initial states of the transform Lambda.  The ingest Lambda has written  *)
(* CSV objects; a scenario gives their bytes and the events of invocations *)
(* 1 and 2; any further invocation is notified of the second key.          *)
(***************************************************************************)
Ev(keys) == [n \in 1..Len(keys) |-> Rec(keys[n])]

TransformScenario(c1, c2, e, ev) == [c1 |-> c1, c2 |-> c2, env |-> e, ev |-> ev]

TransformScenarios ==
    \* two CSVs of one partition, then the first once more
    { TransformScenario(c1, c2, TransformEnv(Bucket), <<Ev(<<CanonKey, SecondKey>>), Ev(<<CanonKey>>)>>) :
        c1 \in {"csvA", "csvB", "csvHdr", "csvBad", "csvEmpty"}, c2 \in {"csvZ", "csvC"} }
    \cup
    \* the second CSV first; keys of another day and outside any partition
    { TransformScenario("csvA", c2, TransformEnv(Bucket), ev) :
        c2 \in {"csvZ", "csvBad"},
        ev \in { <<Ev(<<SecondKey>>), Ev(<<CanonKey>>)>>,
                 <<Ev(<<NextDayKey, CanonKey>>), Ev(<<UndatedKey>>)>>,
                 <<Ev(<<OtherKey, CanonKey>>), Ev(<<SecondKey>>)>> } }
    \cup
    \* events that carry the key percent-encoded
    { TransformScenario("csvA", "csvZ", TransformEnv(Bucket),
                        <<Ev(<<EventEncoded(CanonKey)>>), Ev(<<EventEncoded(SecondKey), CanonKey>>)>>),
      TransformScenario("csvA", "csvZ", TransformEnv(Bucket),
                        <<Ev(<<CanonKey, EventEncoded(UndatedKey)>>), Ev(<<EventEncoded(NextDayKey)>>)>>) }
    \cup
    \* DATA_BUCKET is not set
    { TransformScenario("csvA", "csvZ", TransformEnv(<<>>), <<Ev(<<CanonKey>>), Ev(<<SecondKey>>)>>) }

\* two invocations at the same time
TransformRaceScenarios ==
    { TransformScenario(c1, c2, TransformEnv(Bucket), ev) :
        c1 \in {"csvA", "csvBad"}, c2 \in {"csvZ", "csvC"},
        ev \in { <<Ev(<<CanonKey>>), Ev(<<SecondKey>>)>>,
                 <<Ev(<<CanonKey, NextDayKey>>), Ev(<<SecondKey>>)>> } }

TransformInitFrom(sc, ser) ==
    /\ env = sc.env
    /\ serial = ser
    /\ evt = [i \in Inv |-> IF i <= 2 THEN sc.ev[i] ELSE Ev(<<SecondKey>>)]
    /\ storage = Put(Put(Put(Put(<<>>, Bucket, CanonKey, Bytes(sc.c1)),
                                 Bucket, SecondKey, Bytes(sc.c2)),
                             Bucket, NextDayKey, Bytes("csvB")),
                         Bucket, UndatedKey, Bytes("csvB"))
    /\ clock = Aug27
    /\ ticks = 0
    /\ uuids = 0
    /\ faults = 0
    /\ pc = [i \in Inv |-> "init"]
    /\ idx = [i \in Inv |-> 1]
    /\ loc = [i \in Inv |-> NoLoc]
    /\ ops = [i \in Inv |-> <<>>]
    /\ done = [i \in Inv |-> <<>>]
    /\ ret = [i \in Inv |-> "none"]

TransformInit == \E sc \in TransformScenarios : TransformInitFrom(sc, TRUE)

\* transform invocations one at a time
SpecTransform == TransformInit /\ [][TransformNext]_vars

TransformInitRace == \E sc \in TransformRaceScenarios : TransformInitFrom(sc, FALSE)

\* transform invocations at the same time
SpecTransformRace == TransformInitRace /\ [][TransformNext]_vars

(***************************************************************************)
(* What the store calls in ops tell about the transform Lambda.            *)
(***************************************************************************)
\* the value of the segment name=value of a plain key, "" when the key
\* has no such segment
SegmentValue(key, name) ==
    LET segs == Split(key, "/")
        hits == {n \in 1..Len(segs) : Len(segs[n]) >= 2 /\ segs[n][1] = name /\ segs[n][2] = "="}
    IN IF hits = {} THEN <<>>
       ELSE LET seg == segs[CHOOSE n \in hits : \A m \in hits : n >= m]
            IN SubSeq(seg, 3, Len(seg))

\* the partition a CSV object lies in, by its storage key
KeyPartition(key) ==
    <<SegmentValue(key, "year"), SegmentValue(key, "month"), SegmentValue(key, "day")>>

\* the path of the columnar file of partition ymd
ColumnarKey(ymd) ==
    curatedBase \o <<"year", "=">> \o ymd[1] \o <<"/", "month", "=">> \o ymd[2]
                \o <<"/", "day", "=">> \o ymd[3]
                \o <<"/", "part", "-", "0", "0", "0", "0", ".", "snappy", ".", "parquet">>

\* the puts of a columnar file by invocation i that succeeded
ParquetPuts(i) == {p \in Calls(i, "putpq") : ops[i][p].ok}

\* the fetch of the record that the put e of invocation i belongs to
SourceOf(i, e) == ops[i][CHOOSE g \in OpsOf(i, e.rec, "get") : TRUE]

\* the keys of storage that lie in the curated partition ymd
ColumnarObjects(ymd) ==
    {x \in DOMAIN storage :
        /\ x[1] = dataBucket
        /\ HasPrefix(x[2], curatedBase)
        /\ KeyPartition(x[2]) = ymd}

\* the put e was applied last among the successful puts to its key
AppliedLast(e) ==
    \A j \in Inv : \A q \in ParquetPuts(j) : ops[j][q].key = e.key => ops[j][q].at <= e.at

\* the data records of a CSV text, when the reader reads all of it
DataLines(text) == Len(text) - 1

\* C16: with one transform at a time, every successful transform of a CSV
\* of partition (Y, M, D) writes <curated-base>year=Y/month=M/day=D/
\* part-0000.snappy.parquet; storage holds that one columnar object for the
\* partition, and its records are those of the CSV transformed last.
C16_OneObjectPerPartition ==
    serial => \A i \in Inv : \A p \in ParquetPuts(i) :
        LET e == ops[i][p]
            src == SourceOf(i, e)
            part == KeyPartition(src.key)
        IN /\ e.key = ColumnarKey(part)
           /\ ColumnarObjects(part) = {<<dataBucket, e.key>>}
           /\ AppliedLast(e) =>
                /\ storage[<<dataBucket, e.key>>] = e.body
                /\ Len(e.body.recs) = DataLines(CsvText(src.body))
                /\ e.body = Parquet(parseCSV(CsvText(src.body)).rows)

\* C16 witness: two CSVs of one partition with different records were
\* transformed one after the other, and the columnar object holds the
\* records of the second only
C16_Witness ==
    \E i \in Inv : \E j \in Inv : \E p \in ParquetPuts(i) : \E q \in ParquetPuts(j) :
        LET e == ops[i][p]
            f == ops[j][q]
        IN /\ e.at < f.at
           /\ e.key = f.key
           /\ SourceOf(i, e).key # SourceOf(j, f).key
           /\ e.body # f.body
           /\ AppliedLast(f)
           /\ storage[<<dataBucket, f.key>>] = f.body
           /\ Cardinality(ColumnarObjects(KeyPartition(SourceOf(j, f).key))) = 1

\* C17: when two transforms running at the same time have both put the
\* columnar file of one partition, the object is the complete output of
\* the one whose put was applied last, and both records end as a success,
\* an error a handler returns stemming from a later record.
C17_LastTransformWins ==
    \A i \in Inv : \A j \in Inv \ {i} : \A p \in ParquetPuts(i) : \A q \in ParquetPuts(j) :
        LET e == ops[i][p]
            f == ops[j][q]
        IN (e.key = f.key /\ e.at < f.at /\ AppliedLast(f)) =>
              /\ storage[<<dataBucket, f.key>>] = f.body
              /\ f.body = Parquet(parseCSV(CsvText(SourceOf(j, f).body)).rows)
              /\ Len(f.body.recs) = DataLines(CsvText(SourceOf(j, f).body))
              /\ done[i][e.rec] = "success" /\ done[j][f.rec] = "success"
              /\ ret[i] = "error" => Len(done[i]) > e.rec
              /\ ret[j] = "error" => Len(done[j]) > f.rec

\* C17 witness: two transforms fetched before either had put, both put
\* the same key with different records, both returned nil, and the object
\* holds the records of the later put only
C17_Witness ==
    /\ ~serial
    /\ \E i \in Inv : \E j \in Inv \ {i} : \E p \in ParquetPuts(i) : \E q \in ParquetPuts(j) :
        LET e == ops[i][p]
            f == ops[j][q]
        IN /\ e.key = f.key /\ e.at < f.at
           /\ e.body # f.body
           /\ storage[<<dataBucket, f.key>>] = f.body
           /\ ret[i] = "nil" /\ ret[j] = "nil"

\* the reader reads all of a CSV text
Readable(text) == Len(text) > 0 /\ \A n \in 1..Len(text) : ~text[n].bad

\* C18: for every CSV record the handler has taken up, at most one put is
\* issued, carrying the encoding of all data rows of the CSV; when the
\* fetch failed or the CSV cannot be read no put is issued; and a record
\* that ended without a put ended with an error returned by handler.
C18_AllOrNothing ==
    \A i \in Inv : \A g \in Calls(i, "get") :
        LET r == ops[i][g].rec
            puts == OpsOf(i, r, "putpq")
        IN /\ Cardinality(puts) <= 1
           /\ \A p \in puts :
                 /\ ops[i][g].ok
                 /\ Readable(CsvText(ops[i][g].body))
                 /\ Len(ops[i][p].body.recs) = DataLines(CsvText(ops[i][g].body))
                 /\ ops[i][p].body = Parquet(parseCSV(CsvText(ops[i][g].body)).rows)
           /\ (~ops[i][g].ok \/ ~Readable(CsvText(ops[i][g].body))) => puts = {}
           /\ (Ended(i, r) /\ puts = {}) =>
                 /\ done[i][r] = "error"
                 /\ ret[i] = "error"
                 /\ pc[i] = "returned"

\* C18 witness: a CSV whose third record the reader cannot read was
\* fetched, no put was issued and handler returned an error
C18_Witness ==
    \E i \in Inv : \E g \in Calls(i, "get") :
        /\ ops[i][g].ok
        /\ Len(CsvText(ops[i][g].body)) > 2
        /\ ~Readable(CsvText(ops[i][g].body))
        /\ OpsOf(i, ops[i][g].rec, "putpq") = {}
        /\ ret[i] = "error"

\* C19: for every key the transform handler takes up, plain or
\* percent-encoded, the partition extracted is that of the decoded key
\* (three empty strings when it has no date segments), and the output goes
\* to the columnar key of that partition.
C19_PartitionOfEncodedKey ==
    \A i \in Inv :
        /\ \A g \in Calls(i, "get") :
              ops[i][g].ymd = KeyPartition(urlDecode(ops[i][g].evkey))
        /\ \A p \in Calls(i, "putpq") :
              ops[i][p].key = ColumnarKey(KeyPartition(urlDecode(ops[i][p].evkey)))

\* C20: for every record of the event the transform handler has dealt
\* with, the key is decoded before the prefix test and before the fetch:
\* the record is skipped exactly when the decoded key lacks the prefix,
\* and the key fetched is the decoded key.
C20_KeyDecodedBeforeUse ==
    \A i \in Inv :
        /\ \A g \in Calls(i, "get") : ops[i][g].key = urlDecode(ops[i][g].evkey)
        /\ \A r \in 1..Len(done[i]) :
              done[i][r] = "skipped" <=> ~HasPrefix(urlDecode(evt[i][r].key), rawCsvBase)

(***************************************************************************)
(* Calls of single functions.  Every invocation calls the function once    *)
(* on the argument in loc[i]; ret[i] is the value returned.  Nothing is    *)
(* stored and no event is handled.                                         *)
(***************************************************************************)
\* longest numeric text (in characters and letter runs) given to mapRow
MaxNumLen == 3

\* the state a function is called in, with argument a and the clock at c
CallInit(a, c) ==
    /\ env = DefaultEnv
    /\ serial = TRUE
    /\ evt = [i \in Inv |-> <<>>]
    /\ storage = <<>>
    /\ clock = c
    /\ ticks = 0
    /\ uuids = 0
    /\ faults = 0
    /\ pc = [i \in Inv |-> "init"]
    /\ idx = [i \in Inv |-> 1]
    /\ loc = [i \in Inv |-> a]
    /\ ops = [i \in Inv |-> <<>>]
    /\ done = [i \in Inv |-> <<>>]
    /\ ret = [i \in Inv |-> "none"]

\* a function called on its own leaves the store, the clock and the
\* arguments as they are
NoEffect == UNCHANGED <<env, serial, evt, storage, clock, ticks, uuids, faults, idx, loc, ops, done>>

\* it is the turn of invocation i: the invocations follow one another
Turn(i) == pc[i] = "init" /\ \A j \in Inv : j < i => pc[j] = "returned"

\* invocation i has called the function
Called(i) == pc[i] = "returned"

(***************************************************************************)
(* mapRow on the rows of a bounded set.                                    *)
(***************************************************************************)
\* a column that the row has with value v, and one it lacks
Has(v) == [has |-> TRUE, v |-> v]
Lacks == [has |-> FALSE, v |-> <<>>]

RecordTypeCol == <<"record", "_", "type">>
TypeCol == <<"type">>
NameCol == <<"name">>

\* the row that has, of the columns cs, those that o gives a value
RowFrom(cs, o) ==
    LET present == {n \in 1..Len(cs) : o[n].has}
    IN [c \in {cs[n] : n \in present} |-> o[CHOOSE n \in present : cs[n] = c].v]

RecordTypeVals == {<<>>, <<"exercise">>, <<"food">>, <<"Snack">>}
TypeVals == {<<>>, <<"Exercise">>, <<"Breakfast">>, <<"exercise">>}
NameVals == {<<>>, <<"Chicken", " ", "Breast">>, <<"Morning", " ", "Exercise">>, <<"Running">>}

\* rows with and without a record_type, a type and a name column
RecordTypeRows ==
    { RowFrom(<<RecordTypeCol, TypeCol, NameCol>>, <<rt, ty, nm>>) :
        rt \in {Lacks} \cup {Has(v) : v \in RecordTypeVals},
        ty \in {Lacks} \cup {Has(v) : v \in TypeVals},
        nm \in {Lacks} \cup {Has(v) : v \in NameVals} }

\* the columns get looks up for each numeric field, in its order
NumericAliases ==
    [quantity |-> <<(<<"quantity">>), (<<"amount">>)>>,
     calories |-> <<(<<"calories">>), (<<"kcal">>)>>,
     protein_g |-> <<(<<"protein", "_", "(", "g", ")">>), (<<"protein">>)>>,
     fat_g |-> <<(<<"fat", "_", "(", "g", ")">>), (<<"fat">>)>>,
     carbs_g |-> <<(<<"carbohydrates", "_", "(", "g", ")">>), (<<"carbs">>), (<<"carbohydrates">>)>>,
     fiber_g |-> <<(<<"fiber", "_", "(", "g", ")">>), (<<"fiber">>)>>,
     sodium_mg |-> <<(<<"sodium", "_", "(", "mg", ")">>), (<<"sodium">>)>>,
     sugar_g |-> <<(<<"sugars", "_", "(", "g", ")">>), (<<"sugar">>)>>,
     duration_minutes |-> <<(<<"duration", "_", "minutes">>), (<<"duration">>)>>,
     distance_km |-> <<(<<"distance", "_", "km">>), (<<"distance">>)>>]

NumericFields == DOMAIN NumericAliases

\* the texts of a numeric column: what a person or an export writes
NumericAlphabet == {"1", ".", "-", ",", "cal"}

NumericTexts ==
    UNION {[1..n -> NumericAlphabet] : n \in 0..MaxNumLen}
    \cup {<<"1", ",", "2", "3", "4", ".", "5", " ", "cal">>, <<"n", "/", "a">>, <<"1", "e", "5">>}

\* rows with one numeric column, under its first name
NumericRows ==
    { RowFrom(<<NumericAliases[f][1]>>, <<Has(s)>>) : f \in NumericFields, s \in NumericTexts }
    \cup
    \* the second name of a column, alone and beside the first
    { RowFrom(<<(<<"calories">>), (<<"kcal">>)>>, <<c, Has(s)>>) :
        c \in {Lacks, Has(<<>>), Has(<<"1">>)}, s \in {<<"-", "1", ".", "1">>, <<"cal">>} }

\* rows with the text columns under their first and later names: name,
\* food and exercise; units and unit
TextRows ==
    { RowFrom(<<(<<"name">>), (<<"food">>), (<<"exercise">>)>>, <<n, f, e>>) :
        n \in {Lacks, Has(<<>>), Has(<<"Apple">>)},
        f \in {Lacks, Has(<<"Bread">>)},
        e \in {Lacks, Has(<<>>), Has(<<"Running">>)} }
    \cup
    { RowFrom(<<(<<"units">>), (<<"unit">>), (<<"date">>)>>, <<u, v, d>>) :
        u \in {Lacks, Has(<<>>), Has(<<"cup">>)},
        v \in {Lacks, Has(<<"oz">>)},
        d \in {Lacks, Has(<<>>), Has(<<"2025", "-", "08", "-", "27">>)} }

Rows == RecordTypeRows \cup NumericRows \cup TextRows

CallMapRow(i) ==
    /\ Turn(i)
    /\ Return(i, mapRow(loc[i]))
    /\ NoEffect

MapRowNext == \E i \in Inv : CallMapRow(i)

MapRowInit == \E row \in Rows : CallInit(row, Aug27)

SpecMapRow == MapRowInit /\ [][MapRowNext]_vars

\* the value of column c in row, "" when the row lacks it
Cell(row, c) == IF c \in DOMAIN row THEN row[c] ELSE <<>>

\* C21: mapRow gives a row whose type is "Exercise" the record_type
\* "exercise" and a null meal, and a row with neither a type nor a
\* record_type column whose name does not contain "exercise" the
\* record_type "food".
C21_RecordTypeInference ==
    \A i \in Inv : Called(i) =>
        /\ Cell(loc[i], TypeCol) = <<"Exercise">> =>
              /\ ret[i].record_type = [null |-> FALSE, v |-> <<"exercise">>]
              /\ ret[i].meal = Null
        /\ (TypeCol \notin DOMAIN loc[i] /\ RecordTypeCol \notin DOMAIN loc[i]
            /\ ~ContainsExercise(ToLower(Cell(loc[i], NameCol)))) =>
              ret[i].record_type = [null |-> FALSE, v |-> <<"food">>]

\* C22: the record_type of every record mapRow returns is neither null
\* nor the empty string.
C22_RecordTypePopulated ==
    \A i \in Inv : Called(i) =>
        /\ ~ret[i].record_type.null
        /\ ret[i].record_type.v # <<>>

\* C22 witness: mapRow was called on a row whose record_type and type
\* columns are there and empty, and returned the record_type "food"
C22_Witness ==
    \E i \in Inv :
        /\ Called(i)
        /\ {RecordTypeCol, TypeCol} \subseteq DOMAIN loc[i]
        /\ loc[i][RecordTypeCol] = <<>> /\ loc[i][TypeCol] = <<>>
        /\ ret[i].record_type = [null |-> FALSE, v |-> <<"food">>]

\* C23: the record_type of every record mapRow returns is "food" or
\* "exercise".
C23_RecordTypeClassified ==
    \A i \in Inv : Called(i) =>
        /\ ~ret[i].record_type.null
        /\ ret[i].record_type.v \in {<<"food">>, <<"exercise">>}

\* C24: in every record mapRow returns, record_type = "exercise" implies
\* that meal is null, whatever the type column of the row holds.
C24_ExerciseHasNoMeal ==
    \A i \in Inv : Called(i) =>
        (ret[i].record_type = [null |-> FALSE, v |-> <<"exercise">>] => ret[i].meal = Null)

\* C24 witness: a row with a meal in its type column was mapped to an
\* exercise record without a meal
C24_Witness ==
    \E i \in Inv :
        /\ Called(i)
        /\ Cell(loc[i], TypeCol) = <<"Breakfast">>
        /\ ret[i].record_type.v = <<"exercise">>
        /\ ret[i].meal = Null

\* the text of the first of the columns of field f that the row has
SourceText(row, f) ==
    LET names == NumericAliases[f]
        hits == {n \in 1..Len(names) : names[n] \in DOMAIN row}
    IN IF hits = {} THEN <<>> ELSE row[names[CHOOSE n \in hits : \A m \in hits : n <= m]]

\* the characters of s in [0-9.-], in their order
NumericRemainder(s) == SelectSeq(s, LAMBDA t : t \in NumericToks)

\* C25: mapRow returns a record for every row, and each numeric field of
\* it is the number written by the characters of the source text that are
\* in [0-9.-], and null when the source is empty, nothing remains or the
\* remainder is not a number.
C25_NumericSanitization ==
    \A i \in Inv : Called(i) =>
        /\ DOMAIN ret[i] = NumericFields \cup {"record_type", "date", "meal", "name", "units"}
        /\ \A f \in NumericFields :
             LET rest == NumericRemainder(SourceText(loc[i], f))
             IN ret[i][f] = IF rest # <<>> /\ IsFloatText(rest)
                            THEN [null |-> FALSE, v |-> rest]
                            ELSE Null

\* C25 witness: the calories "1,234.5 cal" were mapped to 1234.5, the
\* fields without a source to null
C25_Witness ==
    \E i \in Inv :
        /\ Called(i)
        /\ Cell(loc[i], <<"calories">>) = <<"1", ",", "2", "3", "4", ".", "5", " ", "cal">>
        /\ ret[i].calories = [null |-> FALSE, v |-> <<"1", "2", "3", "4", ".", "5">>]
        /\ ret[i].quantity = Null

(***************************************************************************)
(* parseCSV on the CSV texts of a bounded set.                             *)
(***************************************************************************)
\* most data records of a text
MaxCsvLines == 2

\* header records as the reader returns them (TrimLeadingSpace): names in
\* capitals, with blanks inside and behind
CsvHeaders ==
    { <<(<<"Name">>), (<<"Fat", " ", "(", "g", ")", " ">>)>>,
      <<(<<"Protein", " ", "G">>), (<<"type">>)>>,
      <<(<<"Name">>), (<<"name", " ">>)>> }

\* the fields of data records: empty, and with blanks inside and behind
CsvFields == {<<>>, <<"a", " ", "b", " ">>}

\* data records under the header h: of one field up to one field more
\* than the header has
CsvRecords(h) == UNION {[1..n -> CsvFields] : n \in 1..(Len(h) + 1)}

\* texts the reader reads to the end, and one it does not
CsvTexts ==
    { <<Line(h)>> \o [n \in 1..Len(recs) |-> Line(recs[n])] :
        h \in CsvHeaders, recs \in UNION {[1..n -> UNION {CsvRecords(g) : g \in CsvHeaders}] : n \in 0..MaxCsvLines} }
    \cup {<<>>, <<BadLine>>, <<CsvHeader, BadLine>>}

CallParseCSV(i) ==
    /\ Turn(i)
    /\ Return(i, parseCSV(loc[i]))
    /\ NoEffect

ParseCSVNext == \E i \in Inv : CallParseCSV(i)

ParseCSVInit == \E b \in CsvTexts : CallInit(b, Aug27)

SpecParseCSV == ParseCSVInit /\ [][ParseCSVNext]_vars

\* a header name without the blanks around it, in lower case, every blank
\* inside as an underscore
NormalizedName(h) ==
    LET t == TrimSpace(h)
    IN [n \in 1..Len(t) |-> IF t[n] = " " THEN "_" ELSE LowerTok(t[n])]

\* the columns of a data record that the header names
NamedColumns(hdr, rec) == {n \in 1..Len(rec) : n <= Len(hdr)}

\* C26: for a text the reader reads to the end, parseCSV returns no error
\* and one row per data record, in order; the keys of a row are the
\* normalized names of the header columns the record has a field for (a
\* shorter record lacks the others, fields beyond the header are dropped),
\* and the value of a key is the field of its column without the blanks
\* around it.
C26_RowsKeyedByNormalizedHeader ==
    \A i \in Inv : (Called(i) /\ Readable(loc[i])) =>
        LET hdr == loc[i][1].fields
        IN /\ ret[i].ok
           /\ Len(ret[i].rows) = Len(loc[i]) - 1
           /\ \A r \in 1..Len(ret[i].rows) :
                LET rec == loc[i][r + 1].fields
                    cols == NamedColumns(hdr, rec)
                IN /\ DOMAIN ret[i].rows[r] = {NormalizedName(hdr[n]) : n \in cols}
                   /\ \A n \in cols :
                        (\A m \in cols : m > n => NormalizedName(hdr[m]) # NormalizedName(hdr[n])) =>
                            ret[i].rows[r][NormalizedName(hdr[n])] = TrimSpace(rec[n])

\* C26 witness: a text with a record shorter and a record longer than the
\* header was parsed; the first row lacks the key of the second column and
\* the second row has the two keys of the header only
C26_Witness ==
    \E i \in Inv :
        /\ Called(i)
        /\ loc[i] = <<Line(<<(<<"Name">>), (<<"Fat", " ", "(", "g", ")", " ">>)>>),
                      Line(<<(<<"a", " ", "b", " ">>)>>),
                      Line(<<(<<>>), (<<"a", " ", "b", " ">>), (<<>>)>>)>>
        /\ ret[i].ok
        /\ ret[i].rows = <<(<<"name">> :> <<"a", " ", "b">>),
                           (<<"name">> :> <<>>) @@ (<<"fat", "_", "(", "g", ")">> :> <<"a", " ", "b">>)>>

(***************************************************************************)
(* The leaf name of an attachment (sanitizeFilename as handler calls it)   *)
(* on the file names of a bounded set.                                     *)
(***************************************************************************)
\* longest file name and longest Message-ID, in characters and letter runs
MaxNameLen == 3

NameAlphabet == {".", "/", "etc", " ", "@"}

\* the file names of TestSanitizeFilename
TestedNames ==
    { <<".", ".", "/", ".", ".", "/", "etc", "/", "passwd">>,
      <<"my", " ", "file", ".", "csv">>,
      <<"We", "!", "rd", "@", "Name", "#", ".", "csv">> }

FileNames == UNION {[1..n -> NameAlphabet] : n \in 0..MaxNameLen} \cup TestedNames

CallCsvLeaf(i) ==
    /\ Turn(i)
    /\ Return(i, CsvLeaf(loc[i]))
    /\ NoEffect

CsvLeafNext == \E i \in Inv : CallCsvLeaf(i)

CsvLeafInit == \E n \in FileNames : CallInit([ReportCsv EXCEPT !.name = n], Aug27)

SpecCsvLeaf == CsvLeafInit /\ [][CsvLeafNext]_vars

\* C27: the leaf name of every attachment has only characters of
\* [A-Za-z0-9._-], so no "/", is not "." or "..", and for
\* "../../etc/passwd" is "passwd".
C27_LeafNameFlat ==
    \A i \in Inv : Called(i) =>
        /\ \A n \in 1..Len(ret[i]) : IsSafe(ret[i][n])
        /\ \A n \in 1..Len(ret[i]) : ret[i][n] # "/"
        /\ ret[i] \notin {<<".">>, <<".", ".">>}
        /\ loc[i].name = <<".", ".", "/", ".", ".", "/", "etc", "/", "passwd">> => ret[i] = <<"passwd">>

(***************************************************************************)
(* sanitizeMessageID on the Message-ID values of a bounded set.  The       *)
(* header value comes without blanks around it, as net/mail returns it.    *)
(***************************************************************************)
IdAlphabet == {"<", ">", " ", "@", ".", "abc"}

MessageIDs ==
    {m \in UNION {[1..n -> IdAlphabet] : n \in 1..MaxNameLen} : m = TrimSpace(m)}
    \cup {BaseMsg.mid, <<"<", "a", " ", "@", "!", "b", ">">>}

CallSanitizeMessageID(i) ==
    /\ Turn(i)
    /\ Return(i, sanitizeMessageID(loc[i]))
    /\ NoEffect

SanitizeMessageIDNext == \E i \in Inv : CallSanitizeMessageID(i)

SanitizeMessageIDInit == \E m \in MessageIDs : CallInit([BaseMsg EXCEPT !.mid = m], Aug27)

SpecSanitizeMessageID == SanitizeMessageIDInit /\ [][SanitizeMessageIDNext]_vars

\* a Message-ID value without the angle brackets and the blanks around it
IdCore(mid) == TrimSpace(Trim(mid, {"<", ">"}))

\* the places of s where a run of characters outside [A-Za-z0-9._-] begins
UnsafeRunStarts(s) == {n \in 1..Len(s) : ~IsSafe(s[n]) /\ (n = 1 \/ IsSafe(s[n-1]))}

\* C28: the output of sanitizeMessageID for a non-empty Message-ID has
\* only characters of [A-Za-z0-9._-]: it is the value without the angle
\* brackets and blanks around it, its other characters in their order and
\* one "-" for each maximal run of characters outside the class;
\* "<abc.def@domain.com>" gives "abc.def-domain.com".
C28_MessageIDSanitized ==
    \A i \in Inv : (Called(i) /\ loc[i].mid # <<>>) =>
        LET core == IdCore(loc[i].mid)
        IN /\ \A n \in 1..Len(ret[i]) : IsSafe(ret[i][n])
           /\ SelectSeq(ret[i], LAMBDA t : t # "-") = SelectSeq(core, IsSafe)
           /\ Cardinality({n \in 1..Len(ret[i]) : ret[i][n] = "-"}) = Cardinality(UnsafeRunStarts(core))
           /\ Len(ret[i]) = Len(SelectSeq(core, IsSafe)) + Cardinality(UnsafeRunStarts(core))
           /\ loc[i].mid = <<"<", "abc", ".", "def", "@", "domain", ".", "com", ">">> =>
                 ret[i] = <<"abc", ".", "def", "-", "domain", ".", "com">>

\* C28 witness: a bracketed Message-ID with a run of two characters
\* outside the class came out without brackets and with one "-" for the run
C28_Witness ==
    \E i \in Inv :
        /\ Called(i)
        /\ loc[i].mid = <<"<", "a", " ", "@", "!", "b", ">">>
        /\ ret[i] = <<"a", "-", "b">>

(***************************************************************************)
(* dateFromMessage and dateParts, as handler calls them, on the Date       *)
(* headers of a bounded set.                                               *)
(***************************************************************************)
\* local dates of a Date header: the tested one, ends of months and years
HeaderDays ==
    { Aug27,
      [y |-> 2025, mo |-> 8, d |-> 31], [y |-> 2025, mo |-> 9, d |-> 1],
      [y |-> 2025, mo |-> 12, d |-> 31], [y |-> 2026, mo |-> 1, d |-> 1],
      [y |-> 2025, mo |-> 2, d |-> 28], [y |-> 2024, mo |-> 2, d |-> 28],
      [y |-> 2024, mo |-> 2, d |-> 29], [y |-> 2025, mo |-> 3, d |-> 1] }

HeaderHours == {0, 12, 23}

\* zone offsets in hours east of UTC
HeaderOffsets == {-12, -7, 0, 9, 14}

DateHeaders ==
    { [kind |-> "ok", day |-> t, h |-> h, off |-> o] : t \in HeaderDays, h \in HeaderHours, o \in HeaderOffsets }
    \cup {NoDate, [NoDate EXCEPT !.kind = "bad"]}

CallDateParts(i) ==
    /\ Turn(i)
    /\ Return(i, dateParts(dateFromMessage(loc[i], clock), clock))
    /\ NoEffect

DatePartsNext == \E i \in Inv : CallDateParts(i)

DatePartsInit ==
    \E dh \in DateHeaders : \E c \in {Aug27, [y |-> 2026, mo |-> 3, d |-> 9]} :
        CallInit([BaseMsg EXCEPT !.date = dh], c)

SpecDateParts == DatePartsInit /\ [][DatePartsNext]_vars

\* the number of the day t, counted from 1 January of the year 1
DayNumber(t) ==
    LET before[k \in 0..11] == IF k = 0 THEN 0 ELSE before[k-1] + DaysIn(t.y, k)
    IN 365 * (t.y - 1) + ((t.y - 1) \div 4) - ((t.y - 1) \div 100) + ((t.y - 1) \div 400)
       + before[t.mo - 1] + t.d

\* the calendar dates of the years around y
CalendarDates(y) ==
    {t \in [y : {y - 1, y, y + 1}, mo : 1..12, d : 1..31] : t.d <= DaysIn(t.y, t.mo)}

\* by how many days the UTC date of hour h at offset off differs from the
\* local date
UTCShift(h, off) == IF h - off < 0 THEN -1 ELSE IF h - off >= 24 THEN 1 ELSE 0

\* C30: for a message with a parseable Date header the year, month and day
\* that handler gets from dateFromMessage and dateParts are the calendar
\* date of the timestamp in UTC, as 4, 2 and 2 digits; the Date
\* Wed, 27 Aug 2025 12:34:56 -0700 gives 2025, 08, 27.
C30_PartitionIsUTCDate ==
    \A i \in Inv : (Called(i) /\ loc[i].date.kind = "ok") =>
        LET dh == loc[i].date
        IN /\ Len(ret[i]) = 3
           /\ Len(ret[i][1]) = 4 /\ Len(ret[i][2]) = 2 /\ Len(ret[i][3]) = 2
           /\ \E t \in CalendarDates(dh.day.y) :
                /\ DayNumber(t) = DayNumber(dh.day) + UTCShift(dh.h, dh.off)
                /\ ret[i] = <<Pad(t.y, 4), Pad(t.mo, 2), Pad(t.d, 2)>>
           /\ (dh.day = Aug27 /\ dh.h = 12 /\ dh.off = -7) =>
                 ret[i] = <<(<<"2", "0", "2", "5">>), (<<"0", "8">>), (<<"2", "7">>)>>

\* C30 witness: a Date of 31 December 2025, 23 h at -7 h, on another day
\* of the clock, gave the partition 2026, 01, 01
C30_Witness ==
    \E i \in Inv :
        /\ Called(i)
        /\ loc[i].date = [kind |-> "ok", day |-> [y |-> 2025, mo |-> 12, d |-> 31], h |-> 23, off |-> -7]
        /\ clock # [y |-> 2026, mo |-> 1, d |-> 1]
        /\ ret[i] = <<(<<"2", "0", "2", "6">>), (<<"0", "1">>), (<<"0", "1">>)>>

(***************************************************************************)
(* Attachment selection by handler.                                        *)
(***************************************************************************)
\* the file name ends in .csv, in any case of the letters
HasCsvExtension(name) ==
    /\ Len(name) >= 2
    /\ name[Len(name) - 1] = "."
    /\ LowerTok(name[Len(name)]) = "csv"

\* the declared media type is text/csv
DeclaredCsv(ctype) == ToLower(ctype) = <<"text", "/", "csv">>

\* the attachments of message m that are to be extracted
Extractable(m) ==
    {n \in 1..Len(m.atts) :
        /\ HasCsvExtension(m.atts[n].name) \/ DeclaredCsv(m.atts[n].ctype)
        /\ m.atts[n].content # "nil"}

\* the attachments of record r that invocation i issued a call name for
AttachmentsWith(i, r, name) == {ops[i][p].att : p \in OpsOf(i, r, name)}

\* C29: a probe or put is issued only for an attachment that has the
\* extension .csv (in any case) or the media type text/csv, and content;
\* and once a message with a readable MIME structure is processed, a put
\* was attempted for every such attachment and for no other.
C29_AttachmentSelection ==
    \A i \in Inv : \A c \in Fetched(i) :
        LET g == ops[i][c]
        IN /\ AttachmentsWith(i, g.rec, "putcsv") \subseteq Extractable(g.msg)
           /\ AttachmentsWith(i, g.rec, "head") \subseteq Extractable(g.msg)
           /\ (Ended(i, g.rec) /\ done[i][g.rec] = "success" /\ g.msg.mimeOk) =>
                 AttachmentsWith(i, g.rec, "putcsv") = Extractable(g.msg)

\* C29 witness: a message with five attachments was processed: puts were
\* attempted for report.csv (text/csv), ../x/Report.CSV (octet-stream) and
\* the unnamed text/csv part, none for notes.txt (text/plain) nor for
\* empty.csv without content
C29_Witness ==
    \E i \in Inv : \E c \in Fetched(i) :
        LET g == ops[i][c]
        IN /\ Len(g.msg.atts) = 5
           /\ Ended(i, g.rec) /\ done[i][g.rec] = "success"
           /\ AttachmentsWith(i, g.rec, "putcsv") = {1, 3, 4}
           /\ AttachmentsWith(i, g.rec, "head") = {1, 3, 4}


(***************************************************************************)
(* The pipeline: both Lambdas on one bucket, wired by the bucket           *)
(* notification.  The mail receiver has stored one message under the       *)
(* incoming prefix and invocation 1 is the ingest Lambda notified of it;   *)
(* every later invocation is born of a successful put whose key matches a  *)
(* filter prefix of the notification.  An event record carries, beside     *)
(* the bucket and the key, the function invoked (fn) and the put that      *)
(* caused it (cause: invocation and position in its operations).           *)
(***************************************************************************)
IngestFilterPrefix == <<"raw", "/", "email", "/", "incoming", "/">>

TransformFilterPrefix == <<"raw", "/", "loseit", "_", "csv", "/">>

\* the functions the notification invokes for an object created at key
Targets(key) ==
    (IF HasPrefix(key, IngestFilterPrefix) THEN {"ingest"} ELSE {})
    \cup (IF HasPrefix(key, TransformFilterPrefix) THEN {"transform"} ELSE {})

PipelineEnv(ingestBucket, transformBucket) ==
    [n \in TransformEnvNames |-> IF n = "EMAIL_BUCKET" THEN ingestBucket
                                 ELSE IF n = "DATA_BUCKET" THEN transformBucket
                                 ELSE <<>>]

PipelineEnvs == {PipelineEnv(Bucket, Bucket), PipelineEnv(<<>>, Bucket), PipelineEnv(Bucket, <<>>)}

PipelineMsgs ==
    {BaseMsg, EvilMsg, Bytes("garbage"),
     [BaseMsg EXCEPT !.id = "noatt", !.atts = <<>>],
     [BaseMsg EXCEPT !.id = "two", !.atts = <<ReportCsv, [ReportCsv EXCEPT !.content = "csvBad"]>>]}

Born(i) == pc[i] # "unborn"

IsIngest(i) == Born(i) /\ evt[i][1].fn = "ingest"

IsTransform(i) == Born(i) /\ evt[i][1].fn = "transform"

\* the successful PutObject calls of invocation j, by position
SuccessfulPuts(j) ==
    {p \in 1..Len(ops[j]) : ops[j][p].op \in {"putraw", "putcsv", "putpq"} /\ ops[j][p].ok}

Dispatched(j, p) == \E k \in Inv : Born(k) /\ evt[k][1].cause = <<j, p>>

\* s3:ObjectCreated:* reaches a function whose filter prefix the key has:
\* the next invocation is born with a one-record event, its key as stored
\* or percent-encoded
Trigger(i) ==
    /\ pc[i] = "unborn"
    /\ \A j \in 1..(i - 1) : Born(j)
    /\ \E j \in Inv : \E p \in SuccessfulPuts(j) : \E fn \in Targets(ops[j][p].key) :
       \E k \in {ops[j][p].key, EventEncoded(ops[j][p].key)} :
         /\ ~Dispatched(j, p)
         /\ evt' = [evt EXCEPT ![i] = <<[bucket |-> Bucket, key |-> k, fn |-> fn, cause |-> <<j, p>>]>>]
         /\ pc' = [pc EXCEPT ![i] = "init"]
    /\ UNCHANGED <<env, serial, storage, clock, ticks, uuids, faults, idx, loc, ops, done, ret>>

PipelineNext ==
    \/ \E i \in Inv : IsIngest(i) /\ Start(i)
    \/ \E i \in Inv : IsIngest(i) /\ Fetch(i)
    \/ \E i \in Inv : IsIngest(i) /\ NilDeref(i)
    \/ \E i \in Inv : IsIngest(i) /\ Reject(i)
    \/ \E i \in Inv : IsIngest(i) /\ PersistRaw(i)
    \/ \E i \in Inv : IsIngest(i) /\ Probe(i)
    \/ \E i \in Inv : IsIngest(i) /\ WriteCsv(i)
    \/ \E i \in Inv : IsTransform(i) /\ TransformStart(i)
    \/ \E i \in Inv : IsTransform(i) /\ TransformFetch(i)
    \/ \E i \in Inv : IsTransform(i) /\ TransformPut(i)
    \/ \E i \in Inv : Trigger(i)

PipelineInit ==
    \E e \in PipelineEnvs : \E m \in PipelineMsgs :
      /\ env = e
      /\ serial = FALSE
      /\ evt = [i \in Inv |-> IF i = 1
                              THEN <<[bucket |-> Bucket, key |-> Src(1), fn |-> "ingest", cause |-> <<0, 0>>]>>
                              ELSE <<>>]
      /\ storage = Put(<<>>, Bucket, Src(1), m)
      /\ clock = Aug27
      /\ ticks = 0
      /\ uuids = 0
      /\ faults = 0
      /\ pc = [i \in Inv |-> IF i = 1 THEN "init" ELSE "unborn"]
      /\ idx = [i \in Inv |-> 1]
      /\ loc = [i \in Inv |-> NoLoc]
      /\ ops = [i \in Inv |-> <<>>]
      /\ done = [i \in Inv |-> <<>>]
      /\ ret = [i \in Inv |-> "none"]

\* one incoming email and the invocations it causes
SpecPipeline == PipelineInit /\ [][PipelineNext]_vars

\* the required bucket name of invocation i is unset or empty
BucketUnset(i) ==
    \/ IsIngest(i) /\ Getenv(env, "EMAIL_BUCKET") = <<>>
    \/ IsTransform(i) /\ Getenv(env, "DATA_BUCKET") = <<>>

\* C31: when the required bucket name (EMAIL_BUCKET for ingest,
\* DATA_BUCKET for transform) is unset or empty, the handler returns an
\* error without any storage operation and without processing any record
C31_ConfigErrorIsFatal ==
    \A i \in Inv :
      BucketUnset(i) =>
        /\ ops[i] = <<>>
        /\ done[i] = <<>>
        /\ idx[i] = 1
        /\ pc[i] \in {"init", "returned"}
        /\ pc[i] = "returned" => ret[i] = "error"

\* the transform Lambda, invoked for a CSV the ingest Lambda wrote, has
\* returned the configuration error
C31_Witness ==
    \E i \in Inv :
      /\ IsTransform(i)
      /\ BucketUnset(i)
      /\ pc[i] = "returned"
      /\ ret[i] = "error"
      /\ ops[i] = <<>>

\* the put attempts of invocation i
PutKeys(i) == {ops[i][p].key : p \in {q \in 1..Len(ops[i]) : ops[i][q].op \in {"putraw", "putcsv", "putpq"}}}

IsNumber(s, w) == Len(s) = w /\ \A n \in 1..Len(s) : \E d \in 1..10 : s[n] = DigitTok[d]

\* C32: every object the transform stage writes has the key
\* <curated-base>year=YYYY/month=MM/day=DD/part-0000.snappy.parquet with a
\* 4-digit year and a 2-digit month and day, for every triggering key
\* under the raw-CSV base, the keys without date segments included
C32_ColumnarKeyLayout ==
    \A i \in Inv : \A p \in ParquetPuts(i) :
        LET part == KeyPartition(ops[i][p].key)
        IN /\ ops[i][p].key = ColumnarKey(part)
           /\ IsNumber(part[1], 4)
           /\ IsNumber(part[2], 2)
           /\ IsNumber(part[3], 2)

(***************************************************************************)
(* The order of the storage operations of one record, and the source       *)
(* object.                                                                 *)
(***************************************************************************)
\* C33: within one record, a CSV existence probe or CSV put is issued only
\* after the put of that message's raw copy succeeded, and the raw put
\* only after the message was fetched and the domain filter accepted it;
\* so a CSV written for a message has the raw copy written before it
C33_RawCopyBeforeCsv ==
    \A i \in Inv : \A p \in 1..Len(ops[i]) :
        LET e == ops[i][p]
        IN /\ e.op \in {"head", "putcsv"} =>
                \E q \in OpsOf(i, e.rec, "putraw") :
                    /\ q < p
                    /\ ops[i][q].ok
                    /\ e.op = "putcsv" => ops[i][q].msg = e.msg
           /\ e.op = "putraw" =>
                /\ DomainFilter(e.msg, allowedDomain) = "accept"
                /\ OpsOf(i, e.rec, "delete") = {}
                /\ \E g \in OpsOf(i, e.rec, "get") : g < p /\ ops[i][g].ok /\ ops[i][g].msg = e.msg
                /\ \A q \in OpsOf(i, e.rec, "head") \cup OpsOf(i, e.rec, "putcsv") : q > p
           /\ e.op = "putcsv" /\ e.ok =>
                \E q \in OpsOf(i, e.rec, "putraw") :
                    /\ q < p
                    /\ Exists(storage, bucketName, ops[i][q].key)

\* a CSV was written for a message of the allowed domain, after the probe
\* and after the raw copy
C33_Witness ==
    \E i \in Inv : \E p \in Calls(i, "putcsv") : \E h \in Calls(i, "head") : \E q \in Calls(i, "putraw") :
        /\ allowedDomain # <<>>
        /\ ops[i][p].ok /\ ops[i][q].ok
        /\ ops[i][p].rec = ops[i][q].rec /\ ops[i][h].rec = ops[i][q].rec
        /\ q < h /\ h < p
        /\ Exists(storage, bucketName, ops[i][p].key)
        /\ Exists(storage, bucketName, ops[i][q].key)

\* C34: the handler never puts to a source key, deletes a source key only
\* when the domain filter rejected its message, and the source of an
\* accepted message stays in storage as it was fetched
C34_SourceReadOnly ==
    \A i \in Inv : \A p \in 1..Len(ops[i]) :
        LET e == ops[i][p]
        IN /\ e.op \in {"putraw", "putcsv"} =>
                \A j \in Inv : \A g \in Calls(j, "get") : e.key # ops[j][g].key
           /\ e.op = "delete" =>
                /\ e.key = e.src
                /\ DomainFilter(e.msg, allowedDomain) \in RejectReasons
           /\ e.op = "get" /\ e.ok /\ DomainFilter(e.msg, allowedDomain) = "accept" =>
                /\ Exists(storage, bucketName, e.key)
                /\ storage[<<bucketName, e.key>>] = e.msg

\* one invocation accepted a message, wrote its CSV and left the source in
\* place, and rejected another message and deleted its source
C34_Witness ==
    \E i \in Inv : \E g \in Fetched(i) : \E p \in Calls(i, "putcsv") : \E d \in Calls(i, "delete") :
        /\ ops[i][p].ok /\ ops[i][p].rec = ops[i][g].rec
        /\ Ended(i, ops[i][g].rec)
        /\ storage[<<bucketName, ops[i][g].key>>] = ops[i][g].msg
        /\ ops[i][d].ok
        /\ ~Exists(storage, bucketName, ops[i][d].key)

(***************************************************************************)
(* The ingest Lambda on messages whose keys come close: Message-IDs that   *)
(* differ in characters the sanitizer replaces, an attachment name without *)
(* an extension, and a configured CSV base with a dot in it.               *)
(***************************************************************************)
\* BaseMsg's Message-ID with "-" where BaseMsg has "@"
DashedIdMsg ==
    [BaseMsg EXCEPT !.id = "dashed",
                    !.mid = <<"<", "abc", ".", "def", "-", "domain", ".", "com", ">">>,
                    !.atts = <<>>]

\* an export attached under a name without extension, declared text/csv
ExportMsg ==
    [BaseMsg EXCEPT !.id = "export",
                    !.atts = <<[name |-> <<"export">>, ctype |-> <<"text", "/", "csv">>, content |-> "csvA"]>>]

\* RAW_CSV_BASE set to raw/v1.0/
VersionedEnv == [DefaultEnv EXCEPT !["RAW_CSV_BASE"] = <<"raw", "/", "v", "1", ".", "0", "/">>]

KeyScenarios ==
    { Scenario(BaseMsg, m2, {}, DefaultEnv, ev) :
        m2 \in {DashedIdMsg, OtherExport, EvilMsg, Bytes("garbage")}, ev \in {Redelivery, OneEach} }
    \cup
    { Scenario(m1, EvilMsg, {}, e, Redelivery) : m1 \in {BaseMsg, ExportMsg}, e \in {DefaultEnv, VersionedEnv} }

KeyInit == \E sc \in KeyScenarios : InitFrom(sc, TRUE)

SpecKeys == KeyInit /\ [][Next]_vars

\* the raw copies invocation i wrote
RawPuts(i) == {p \in Calls(i, "putraw") : ops[i][p].ok}

\* C35: two messages with different non-empty Message-ID header values
\* and the same partition date are never written to the same raw .eml
\* key, so neither raw copy overwrites the other
C35_DistinctMessagesDistinctKeys ==
    \A i \in Inv : \A j \in Inv : \A p \in RawPuts(i) : \A q \in RawPuts(j) :
        LET e == ops[i][p]
            f == ops[j][q]
        IN (/\ e.msg.mid # <<>>
            /\ f.msg.mid # <<>>
            /\ e.msg.mid # f.msg.mid
            /\ e.ymd = f.ymd)
           => e.key # f.key

\* the directory part of a key, up to and with its last "/", and its leaf
KeyDir(key) == SubSeq(key, 1, LastIndex(key, "/"))

KeyLeaf(key) == SubSeq(key, LastIndex(key, "/") + 1, Len(key))

\* the leaf with sfx put before its extension, or at its end when it has
\* none
LeafWith(leaf, sfx) ==
    IF LastIndex(leaf, ".") > 0
    THEN SubSeq(leaf, 1, LastIndex(leaf, ".") - 1) \o <<"-">> \o sfx \o SubSeq(leaf, LastIndex(leaf, "."), Len(leaf))
    ELSE leaf \o <<"-">> \o sfx

\* the suffixes ensureUniqueKey may use
KeySuffixes == {Itoa(n) : n \in 2..MaxTry} \cup {Uuid(n) : n \in 0..NumInv}

\* the key handler builds for the attachment of the put e, before
\* ensureUniqueKey
CanonicalKeyOf(e) == PartitionedKey(rawCsvBase, e.ymd, CsvLeaf(e.msg.atts[e.att]))

\* C38: for every canonical key and every configured CSV base, the key
\* ensureUniqueKey returns differs from the canonical key only in its
\* leaf: the suffix stands before the leaf's extension (or at the end of a
\* leaf without one) and the directory part is unchanged
C38_SuffixInLeafOnly ==
    \A i \in Inv : \A p \in Calls(i, "putcsv") :
        LET e == ops[i][p]
            canon == CanonicalKeyOf(e)
        IN /\ KeyDir(e.key) = KeyDir(canon)
           /\ \/ e.key = canon
              \/ \E sfx \in KeySuffixes : KeyLeaf(e.key) = LeafWith(KeyLeaf(canon), sfx)

(***************************************************************************)
(* The alias lists of mapRow.                                              *)
(***************************************************************************)
\* the columns get looks up for each text field, in its order
TextAliases ==
    [date |-> <<(<<"date">>)>>,
     name |-> <<(<<"name">>), (<<"food">>), (<<"exercise">>)>>,
     units |-> <<(<<"units">>), (<<"unit">>)>>]

\* the value of the first of names that is a column of row, if any is
RECURSIVE FirstPresent(_, _)
FirstPresent(row, names) ==
    IF names = <<>> THEN Lacks
    ELSE IF Head(names) \in DOMAIN row THEN Has(row[Head(names)])
    ELSE FirstPresent(row, Tail(names))

\* the field holds the text s
Text(s) == [null |-> FALSE, v |-> s]

\* C37, as stated: every field is taken from the first alias of its list
\* that is a column of the row, empty or not, and is null only when that
\* value is empty or no alias is a column
C37_NullOnlyWhenEmptyOrAbsent ==
    \A i \in Inv : Called(i) =>
        /\ \A f \in DOMAIN TextAliases :
             LET s == FirstPresent(loc[i], TextAliases[f])
             IN ret[i][f] = IF s.v = <<>> THEN Null ELSE Text(s.v)
        /\ \A f \in NumericFields :
             LET s == FirstPresent(loc[i], NumericAliases[f])
             IN ret[i][f] = Null <=> s.v = <<>>

\* C37, amended: a text field (date, name, units) is the value of the
\* first alias that is a column of the row, and null exactly when that
\* value is empty or no alias is a column; a numeric field is converted
\* from the value of the first alias that is a column, later aliases
\* counting only when every earlier one is absent, and is null when that
\* value is empty, no alias is a column, or no number remains of it
C37_FirstPresentAlias ==
    \A i \in Inv : Called(i) =>
        /\ \A f \in DOMAIN TextAliases :
             LET s == FirstPresent(loc[i], TextAliases[f])
             IN ret[i][f] = IF s.v = <<>> THEN Null ELSE Text(s.v)
        /\ \A f \in NumericFields :
             LET s == FirstPresent(loc[i], NumericAliases[f])
                 rest == NumericRemainder(s.v)
             IN /\ ret[i][f] = Null <=> (s.v = <<>> \/ rest = <<>> \/ ~IsFloatText(rest))
                /\ ret[i][f] # Null => ret[i][f] = Text(rest)

\* an empty calories column beside a kcal column of -1.1 was mapped to a
\* null calories field
C37_Witness ==
    \E i \in Inv :
        /\ Called(i)
        /\ <<"calories">> \in DOMAIN loc[i] /\ loc[i][<<"calories">>] = <<>>
        /\ <<"kcal">> \in DOMAIN loc[i] /\ loc[i][<<"kcal">>] = <<"-", "1", ".", "1">>
        /\ ret[i].calories = Null

(***************************************************************************)
(* lambda/weekly_report/main.go: getWeekRange.  A time.Time is its         *)
(* calendar day and wall clock in its location:                            *)
(* [day, h, mi, s, ns, loc].                                               *)
(***************************************************************************)
\* time.Time.Weekday(): Sunday is 0, Monday 1, ..., Saturday 6
Weekday(t) == DayNumber(t.day) % 7

\* the calendar day n days after day (before it, when n is negative)
RECURSIVE AddDays(_, _)
AddDays(day, n) ==
    IF n = 0 THEN day
    ELSE IF n > 0 THEN AddDays(NextDay(day), n - 1)
    ELSE AddDays(PrevDay(day), n + 1)

\* time.Time.AddDate(0, 0, n): the wall clock and the location are kept
AddDate(t, n) == [t EXCEPT !.day = AddDays(t.day, n)]

\* time.Date(y, m, d, h, mi, s, ns, loc)
Date(day, h, mi, s, ns, l) == [day |-> day, h |-> h, mi |-> mi, s |-> s, ns |-> ns, loc |-> l]

\* getWeekRange without the case of Sunday
getWeekRange_NoSundayCase(date) ==
    LET daysFromMonday == Weekday(date) - 1
        start == Date(AddDate(date, -daysFromMonday).day, 0, 0, 0, 0, date.loc)
    IN [start |-> start,
        end |-> Date(AddDate(start, 6).day, 23, 59, 59, 999999999, start.loc)]

getWeekRange(date) ==
    LET weekday == Weekday(date)
        daysFromMonday == IF weekday = 0 THEN 6 ELSE weekday - 1
        start == Date(AddDate(date, -daysFromMonday).day, 0, 0, 0, 0, date.loc)
    IN [start |-> start,
        end |-> Date(AddDate(start, 6).day, 23, 59, 59, 999999999, start.loc)]

\* the weeks of dates getWeekRange is called with
MaxWeeks == 2

\* Monday, 6 January 2025
Jan6 == [y |-> 2025, mo |-> 1, d |-> 6]

\* the dates from Jan6 on, at three hours of the day, in two locations
WeekDates ==
    { Date(AddDays(Jan6, n), h, 0, 0, 0, l) :
        n \in 0..(7 * MaxWeeks - 1), h \in {0, 15, 23}, l \in {"UTC", "Europe/London"} }

\* handler: the current week of now, by the first invocation
CallGetWeekRange(i) ==
    /\ i = 1
    /\ Turn(i)
    /\ Return(i, getWeekRange(loc[i]))
    /\ NoEffect

\* handler: the week of currentWeekStart.AddDate(0, 0, -7), the start
\* being the one the invocation before returned
CallPreviousWeek(i) ==
    /\ i > 1
    /\ Turn(i)
    /\ loc' = [loc EXCEPT ![i] = AddDate(ret[i - 1].start, -7)]
    /\ Return(i, getWeekRange(AddDate(ret[i - 1].start, -7)))
    /\ UNCHANGED <<env, serial, evt, storage, clock, ticks, uuids, faults, idx, ops, done>>

WeekRangeNext ==
    \/ \E i \in Inv : CallGetWeekRange(i)
    \/ \E i \in Inv : CallPreviousWeek(i)

WeekRangeInit == \E date \in WeekDates : CallInit(date, Aug27)

SpecWeekRange == WeekRangeInit /\ [][WeekRangeNext]_vars

\* the Mondays around the dates of the model, counted from Jan6
Mondays == {AddDays(Jan6, 7 * k) : k \in (0 - NumInv)..MaxWeeks}

\* t is not after u, both in one location
NotAfter(t, u) ==
    \/ DayNumber(t.day) < DayNumber(u.day)
    \/ /\ t.day = u.day
       /\ \/ t.h < u.h
          \/ t.h = u.h /\ t.mi < u.mi
          \/ t.h = u.h /\ t.mi = u.mi /\ t.s < u.s
          \/ t.h = u.h /\ t.mi = u.mi /\ t.s = u.s /\ t.ns <= u.ns

\* C40: for a date on any weekday getWeekRange returns as start 00:00:00
\* of the Monday on or before the date and as end 23:59:59.999999999 of
\* the Sunday six days after that Monday, both in the date's location, so
\* the date lies within them; applied to start minus 7 days it returns the
\* week immediately before
C40_WeekRange ==
    \A i \in Inv : Called(i) =>
        LET date == loc[i]
            r == ret[i]
        IN /\ r.start.day \in Mondays
           /\ DayNumber(date.day) - DayNumber(r.start.day) \in 0..6
           /\ r.start = Date(r.start.day, 0, 0, 0, 0, date.loc)
           /\ r.end = Date(AddDays(r.start.day, 6), 23, 59, 59, 999999999, date.loc)
           /\ NotAfter(r.start, date) /\ NotAfter(date, r.end)
           /\ i > 1 =>
                /\ date = AddDate(ret[i - 1].start, -7)
                /\ r.start.day = AddDays(ret[i - 1].start.day, -7)
                /\ r.end.day = PrevDay(ret[i - 1].start.day)

\* Sunday, 12 January 2025, 15:00 gave the week of 6 to 12 January, and
\* the week before it is that of 30 December to 5 January
C40_Witness ==
    /\ Called(1) /\ Called(2)
    /\ loc[1] = Date([y |-> 2025, mo |-> 1, d |-> 12], 15, 0, 0, 0, "UTC")
    /\ ret[1].start = Date(Jan6, 0, 0, 0, 0, "UTC")
    /\ ret[1].end = Date([y |-> 2025, mo |-> 1, d |-> 12], 23, 59, 59, 999999999, "UTC")
    /\ ret[2].start = Date([y |-> 2024, mo |-> 12, d |-> 30], 0, 0, 0, 0, "UTC")
    /\ ret[2].end = Date([y |-> 2025, mo |-> 1, d |-> 5], 23, 59, 59, 999999999, "UTC")

(***************************************************************************)
(* lambda/weekly_report/main.go: waitForAthenaQueryCompletion.  Invocation *)
(* i waits for its own query: loc[i].state is the state Athena holds for   *)
(* it, ops[i] the last answer of GetQueryExecution, idx[i] the number of   *)
(* status calls made so far, counted up to MaxPolls.  The handler runs its *)
(* queries one after the other: the query of invocation i is started when  *)
(* the waits before it have returned.                                      *)
(***************************************************************************)
MaxPolls == 3

QueryStates == {"QUEUED", "RUNNING", "SUCCEEDED", "FAILED", "CANCELLED"}

TerminalStates == {"SUCCEEDED", "FAILED", "CANCELLED"}

\* executeAthenaQuery has started the query of invocation i
Started(i) == \A j \in 1..(i - 1) : pc[j] = "returned"

\* Athena moves the query on: it starts to run, ends, or is cancelled
QueryAdvance(i) ==
    /\ Started(i)
    /\ loc[i].state \notin TerminalStates
    /\ \E s \in (IF loc[i].state = "QUEUED" THEN {"RUNNING", "FAILED", "CANCELLED"} ELSE TerminalStates) :
         loc' = [loc EXCEPT ![i] = [state |-> s]]
    /\ UNCHANGED <<env, serial, evt, storage, clock, ticks, uuids, faults, pc, idx, ops, done, ret>>

Counted(n) == IF n < MaxPolls THEN n + 1 ELSE MaxPolls

\* the loop that gives up with an error after MaxPolls status calls
GetQueryExecution_GiveUp(i) ==
    /\ Started(i)
    /\ pc[i] = "poll"
    /\ \E ok \in Outcomes :
         /\ Fault(~ok)
         /\ ops' = [ops EXCEPT ![i] = <<[op |-> "status", ok |-> ok, state |-> IF ok THEN loc[i].state ELSE "none"]>>]
         /\ idx' = [idx EXCEPT ![i] = Counted(@)]
         /\ IF ~ok THEN Return(i, "error")
            ELSE IF loc[i].state = "SUCCEEDED" THEN Return(i, "nil")
            ELSE IF loc[i].state \in {"FAILED", "CANCELLED"} \/ Counted(idx[i]) = MaxPolls THEN Return(i, "error")
            ELSE /\ pc' = [pc EXCEPT ![i] = "sleep"]
                 /\ ret' = ret
    /\ UNCHANGED <<env, serial, evt, storage, clock, ticks, uuids, loc, done>>

\* one turn of the loop: GetQueryExecutionWithContext and the tests of its
\* error and of the state
GetQueryExecution(i) ==
    /\ Started(i)
    /\ pc[i] = "poll"
    /\ \E ok \in Outcomes :
         /\ Fault(~ok)
         /\ ops' = [ops EXCEPT ![i] = <<[op |-> "status", ok |-> ok, state |-> IF ok THEN loc[i].state ELSE "none"]>>]
         /\ idx' = [idx EXCEPT ![i] = Counted(@)]
         /\ IF ~ok THEN Return(i, "error")
            ELSE IF loc[i].state = "SUCCEEDED" THEN Return(i, "nil")
            ELSE IF loc[i].state \in {"FAILED", "CANCELLED"} THEN Return(i, "error")
            ELSE /\ pc' = [pc EXCEPT ![i] = "sleep"]
                 /\ ret' = ret
    /\ UNCHANGED <<env, serial, evt, storage, clock, ticks, uuids, loc, done>>

\* time.Sleep(1 * time.Second), then the next turn
Sleep(i) ==
    /\ pc[i] = "sleep"
    /\ pc' = [pc EXCEPT ![i] = "poll"]
    /\ UNCHANGED <<env, serial, evt, storage, clock, ticks, uuids, faults, idx, loc, ops, done, ret>>

PollNext ==
    \/ \E i \in Inv : QueryAdvance(i)
    \/ \E i \in Inv : GetQueryExecution(i)
    \/ \E i \in Inv : Sleep(i)

PollInit ==
    /\ env = DefaultEnv
    /\ serial = FALSE
    /\ evt = [i \in Inv |-> <<>>]
    /\ storage = <<>>
    /\ clock = Aug27
    /\ ticks = 0
    /\ uuids = 0
    /\ faults = 0
    /\ pc = [i \in Inv |-> "poll"]
    /\ idx = [i \in Inv |-> 0]
    /\ loc = [i \in Inv |-> [state |-> "QUEUED"]]
    /\ ops = [i \in Inv |-> <<>>]
    /\ done = [i \in Inv |-> <<>>]
    /\ ret = [i \in Inv |-> "none"]

SpecPoll == PollInit /\ [][PollNext]_vars

\* the goroutine in the loop keeps running: a status call that can be made
\* is made, a sleep ends.  Nothing makes Athena move a query on.
SpecPollFair ==
    SpecPoll /\ \A i \in Inv : WF_vars(GetQueryExecution(i)) /\ WF_vars(Sleep(i))

\* what the last status call of invocation i returned
Observed(i) == ops[i][1]

\* the loop of invocation i is where its last observation puts it
PollOutcome(i) ==
    /\ ops[i] = <<>> => pc[i] = "poll" /\ ret[i] = "none" /\ idx[i] = 0
    /\ ops[i] # <<>> =>
         /\ idx[i] > 0
         /\ (Observed(i).ok /\ Observed(i).state = "SUCCEEDED") <=> (pc[i] = "returned" /\ ret[i] = "nil")
         /\ (~Observed(i).ok \/ Observed(i).state \in {"FAILED", "CANCELLED"})
              <=> (pc[i] = "returned" /\ ret[i] = "error")
         /\ (Observed(i).ok /\ Observed(i).state \in {"QUEUED", "RUNNING"})
              <=> (pc[i] \in {"sleep", "poll"} /\ ret[i] = "none")
         /\ Observed(i).ok /\ Observed(i).state \in TerminalStates => loc[i].state = Observed(i).state

\* C39: the polling loop returns success only after it observed SUCCEEDED,
\* returns an error as soon as it observes FAILED or CANCELLED or a status
\* call fails, and polls again otherwise, however many polls it has made;
\* it terminates once the query has reached a terminal state
C39_PollingLoop ==
    /\ [](\A i \in Inv : PollOutcome(i))
    /\ \A i \in Inv : (loc[i].state \in TerminalStates) ~> (pc[i] = "returned")

\* a loop made MaxPolls status calls or more, the last of which saw
\* SUCCEEDED, and returned nil; the next is still polling a running query
\* after as many calls
C39_Witness ==
    \E i \in Inv : \E j \in Inv :
        /\ idx[i] = MaxPolls /\ pc[i] = "returned" /\ ret[i] = "nil"
        /\ Observed(i).state = "SUCCEEDED"
        /\ idx[j] = MaxPolls /\ pc[j] = "sleep" /\ loc[j].state = "RUNNING"

============================================================================
